---- MODULE Spec2Model ----
(***************************************************************************)
(* ECC codec engine of the Error-Code-Correction repository:               *)
(*   - HammingCodeSECDED<WordTraits>  (src/src/hamming_simulator.tpp)      *)
(*   - SecDaec64                      (SecDaec64 header, BitVector variant)*)
(*   - BCH63                          (src/src/bch63.cpp)                  *)
(*                                                                         *)
(* Representation.  A machine word (uint64_t, uint32_t, the two words of a *)
(* BitVector / CodeWordStorage, a std::array<bool,N>) is the set of the    *)
(* indices of its 1 bits; x | (1<<i) is x \cup {i}, x ^ y the symmetric    *)
(* difference, popcount the cardinality.  GF(2^6) elements and polynomial  *)
(* coefficients are the integers 0..63 the code uses.                      *)
(***************************************************************************)
EXTENDS Integers, Sequences, FiniteSets, TLC

VARIABLES
    hw,        \* Hamming: the WordTraits instantiated (32 or 64)
    pcm,       \* Hamming: HammingCodeSECDED::pcm_.rows
    hdata,     \* Hamming: the data word handed to encode
    hcw,       \* Hamming: the CodeWord held by the caller
    hflips,    \* Hamming: positions flipped since encode (bookkeeping)
    hres,      \* Hamming: the DecodingResult of the last decode
    hpc,       \* Hamming: "idle" | "encoded" | "decoded"
    bmsg,      \* BCH: the message handed to encode (std::vector<bool>)
    bcw,       \* BCH: the Codeword held by the caller
    bclean,    \* BCH: the codeword encode returned (bookkeeping)
    bflips,    \* BCH: positions flipped since encode (bookkeeping)
    bres,      \* BCH: the DecodeResult of the last decode
    bpc,       \* BCH: "idle" | "encoded" | "decoded"
    ddata,     \* SEC-DAEC: the data word handed to encode
    dcw,       \* SEC-DAEC: CodeWord::bits held by the caller
    dflips,    \* SEC-DAEC: indices flipped since encode (bookkeeping)
    dres,      \* SEC-DAEC: the DecodingResult of the last decode
    dpc,       \* SEC-DAEC: "idle" | "encoded" | "decoded"
    table_init,          \* bitsFromDoubleAdj: static bool init
    table,               \* bitsFromDoubleAdj: static std::pair<int,int> table[256]
    secdaec_energy_csv,  \* lines appended to secdaec_energy_csv
    thr_pc,    \* per thread: its position inside decode / bitsFromDoubleAdj
    thr_s,     \* per thread: the syndrome s its decode computed
    thr_ret,   \* per thread: the pair bitsFromDoubleAdj(s) returned to it
    calls,     \* the decode calls made so far: codec, word passed, result returned
    ldata,     \* legacy HammingCodeSECDED::CodeWord::data (uint64_t)
    cref,      \* per bit container: its contents had only in-range calls acted
    memory,    \* AdvancedMemorySimulator::memory_ (address -> CodeWord)
    counters,  \* ECCStatistics::counters_
    sim,       \* the last simulator call: its arguments and how it ended
    ghost,     \* calls made, and reads and writes that returned (bookkeeping)
    rnd,       \* injectRandomErrors: num_errors, i, used_positions and position
    clauses,         \* SATSolver::clauses (literals and the satisfied flag)
    assignment,      \* SATSolver::assignment
    decision_stack,  \* SATSolver::decision_stack
    activity,        \* SATSolver::var_info[var].activity
    conflicts,       \* SATSolver::conflicts
    frames,          \* the activations of dpll: the variable each one decided
    sat_pc,          \* "building" | "call" | "backtrack" | "done"
    sat_ret          \* what solve() returned

hamVars == <<hw, pcm, hdata, hcw, hflips, hres, hpc>>
bchVars == <<bmsg, bcw, bclean, bflips, bres, bpc>>
daecVars == <<ddata, dcw, dflips, dres, dpc, table_init, table, secdaec_energy_csv>>
thrVars == <<thr_pc, thr_s, thr_ret>>
legVars == <<ldata, cref>>
simVars == <<memory, counters, sim, ghost, rnd>>
satVars == <<clauses, assignment, decision_stack, activity, conflicts, frames, sat_pc, sat_ret>>
vars == <<hamVars, bchVars, daecVars, thrVars, calls, legVars, simVars, satVars>>

-----------------------------------------------------------------------------
(* Bounds of the model *)

\* most bit flips injected into one Hamming / SEC-DAEC codeword
MaxFlips == 2

\* number of generated data words per width, besides the vectors of the tests
NumData == 1

\* most decode calls recorded in calls
MaxCalls == 3

-----------------------------------------------------------------------------
(* Machine-word helpers *)

SymDiff(a, b) == (a \ b) \cup (b \ a)

\* a & b != 0 on non-negative ints
RECURSIVE AndNZ(_, _)
AndNZ(a, b) ==
    IF a = 0 \/ b = 0 THEN FALSE
    ELSE (a % 2 = 1 /\ b % 2 = 1) \/ AndNZ(a \div 2, b \div 2)

\* the word whose hexadecimal digits, most significant first, are ds
RECURSIVE HexWord(_)
HexWord(ds) ==
    IF ds = <<>> THEN {}
    ELSE LET n == Len(ds)
             d == ds[n]
             low == {i \in 0..3 : (d \div (2^i)) % 2 = 1}
         IN  low \cup {i + 4 : i \in HexWord(SubSeq(ds, 1, n - 1))}

Parity(S) == Cardinality(S) % 2

-----------------------------------------------------------------------------
(* BitVector *)

BitVectorGet(bv, pos) == IF pos >= 128 THEN FALSE ELSE pos \in bv

BitVectorSet(bv, pos, value) ==
    IF pos >= 128 THEN bv
    ELSE IF value THEN bv \cup {pos} ELSE bv \ {pos}

(* ParityCheckMatrix::syndrome: bit r of the result is the parity of the
   codeword bits selected by row r. *)
PcmSyndrome(rows, cwVec) ==
    {r \in 0..(Len(rows) - 1) : Parity(rows[r + 1] \cap cwVec) = 1}

-----------------------------------------------------------------------------
(* Hamming word traits *)

Widths == {32, 64}

DATA_BITS(w) == w

parity_positions(w) ==
    IF w = 32 THEN <<1, 2, 4, 8, 16, 32>> ELSE <<1, 2, 4, 8, 16, 32, 64>>

PARITY_BITS(w) == Len(parity_positions(w))

OVERALL_PARITY_BIT == 1

TOTAL_BITS(w) == DATA_BITS(w) + PARITY_BITS(w) + OVERALL_PARITY_BIT

(* detail::CodeWordStorage<Bits>, positions 1..Bits stored at index pos-1 *)
getBit(cw, Bits, pos) ==
    IF pos <= 0 \/ pos > Bits THEN FALSE ELSE (pos - 1) \in cw

setBit(cw, Bits, pos, value) ==
    IF pos <= 0 \/ pos > Bits THEN cw
    ELSE IF value THEN cw \cup {pos - 1} ELSE cw \ {pos - 1}

flipBit(cw, Bits, pos) ==
    IF pos <= 0 \/ pos > Bits THEN cw ELSE SymDiff(cw, {pos - 1})

isParityPosition(w, pos) ==
    \E k \in 1..PARITY_BITS(w) : parity_positions(w)[k] = pos

isOverallParityPosition(w, pos) == pos = TOTAL_BITS(w)

\* a faulty variant of buildParityCheckMatrix that loses the second 64-bit
\* word of each row (idx >= 64): single-error correction C2 must notice it
buildParityCheckMatrix_lowWordOnly(w) ==
    [k \in 1..PARITY_BITS(w) |->
        {pos - 1 : pos \in {q \in 1..(TOTAL_BITS(w) - 1) :
                              AndNZ(q, parity_positions(w)[k]) /\ q - 1 < 64}}]

\* one row per parity bit: the indices pos-1 of the positions it covers
buildParityCheckMatrix(w) ==
    [k \in 1..PARITY_BITS(w) |->
        {pos - 1 : pos \in {q \in 1..(TOTAL_BITS(w) - 1) :
                              AndNZ(q, parity_positions(w)[k])}}]

RECURSIVE DataPositionsFrom(_, _)
DataPositionsFrom(w, pos) ==
    IF pos > TOTAL_BITS(w) THEN <<>>
    ELSE IF ~isParityPosition(w, pos) /\ ~isOverallParityPosition(w, pos)
         THEN <<pos>> \o DataPositionsFrom(w, pos + 1)
         ELSE DataPositionsFrom(w, pos + 1)

getDataPositions(w) == DataPositionsFrom(w, 1)

dataPos32 == getDataPositions(32)
dataPos64 == getDataPositions(64)
dataPositions(w) == IF w = 32 THEN dataPos32 ELSE dataPos64

(* HammingCodeSECDED::encode *)
\* the data loop of encode on the zero codeword: the setBit calls write
\* distinct positions, so their effects are independent and the loop's result
\* is the union of what each call sets
PlaceData(w, data) ==
    UNION {setBit({}, TOTAL_BITS(w), dataPositions(w)[i + 1], i \in data) :
              i \in 0..(DATA_BITS(w) - 1)}

\* a faulty variant of the parity loop of encode, stopping one position early
\* (pos < TOTAL_BITS - 1): the round trip C1 must notice it
CoveredOnes_stopsEarly(w, cw, parity_bit) ==
    {pos \in 1..(TOTAL_BITS(w) - 2) :
        AndNZ(pos, parity_bit) /\ getBit(cw, TOTAL_BITS(w), pos)}

CoveredOnes(w, cw, parity_bit) ==
    {pos \in 1..(TOTAL_BITS(w) - 1) :
        AndNZ(pos, parity_bit) /\ getBit(cw, TOTAL_BITS(w), pos)}

RECURSIVE SetParities(_, _, _)
SetParities(w, k, cw) ==
    IF k > PARITY_BITS(w) THEN cw
    ELSE LET parity_bit == parity_positions(w)[k]
             parity == Parity(CoveredOnes(w, cw, parity_bit))
         IN  SetParities(w, k + 1, setBit(cw, TOTAL_BITS(w), parity_bit, parity # 0))

\* encode without the loop that sets the overall parity bit
Hamming_encode_withoutOverall(w, data) == SetParities(w, 1, PlaceData(w, data))

Hamming_encode(w, data) ==
    LET placed == PlaceData(w, data)
        withParity == SetParities(w, 1, placed)
        overall_parity ==
            Parity({pos \in 1..(TOTAL_BITS(w) - 1) : getBit(withParity, TOTAL_BITS(w), pos)})
    IN  setBit(withParity, TOTAL_BITS(w), TOTAL_BITS(w), overall_parity # 0)

(* HammingCodeSECDED::decode *)
RECURSIVE SyndromeInt(_, _, _)
SyndromeInt(synVec, i, n) ==
    IF i >= n THEN 0
    ELSE (IF BitVectorGet(synVec, i) THEN 2^i ELSE 0) + SyndromeInt(synVec, i + 1, n)

ExtractData(w, cw) ==
    {i \in 0..(DATA_BITS(w) - 1) : getBit(cw, TOTAL_BITS(w), dataPositions(w)[i + 1])}

\* a faulty variant of the overall-parity loop of decode that leaves out the
\* overall parity bit itself (pos <= TOTAL_BITS - 1): the double-error
\* classification C3 must notice it
calculated_overall_parity_withoutOverallBit(w, received) ==
    Parity({pos \in 1..(TOTAL_BITS(w) - 1) : getBit(received, TOTAL_BITS(w), pos)})

\* the overall-parity loop of decode, over the positions 1 .. TOTAL_BITS
calculated_overall_parity(w, received) ==
    Parity({pos \in 1..TOTAL_BITS(w) : getBit(received, TOTAL_BITS(w), pos)})

\* a faulty variant of decode that extracts the data from the word as
\* received, before the correction: the classification table C13 must notice it
Hamming_decode_extractsReceived(w, rows, received) ==
    LET Nbits == TOTAL_BITS(w)
        \* cwVec.set(pos - 1, true) for the set positions 1 .. TOTAL_BITS-1
        cwVec == {pos - 1 : pos \in {q \in 1..(Nbits - 1) : getBit(received, Nbits, q)}}
        synVec == PcmSyndrome(rows, cwVec)
        syndrome == SyndromeInt(synVec, 0, PARITY_BITS(w))
        overall_parity == calculated_overall_parity(w, received) # 0
        error_type ==
            IF syndrome = 0 /\ ~overall_parity THEN "NO_ERROR"
            ELSE IF syndrome = 0 /\ overall_parity THEN "OVERALL_PARITY_ERROR"
            ELSE IF syndrome # 0 /\ overall_parity THEN "SINGLE_ERROR_CORRECTABLE"
            ELSE IF syndrome # 0 /\ ~overall_parity THEN "DOUBLE_ERROR_DETECTABLE"
            ELSE "MULTIPLE_ERROR_UNCORRECTABLE"
        error_position ==
            IF error_type = "OVERALL_PARITY_ERROR" THEN Nbits
            ELSE IF error_type = "SINGLE_ERROR_CORRECTABLE" THEN syndrome
            ELSE 0
        inRange == error_position >= 1 /\ error_position <= Nbits - 1
        fixed ==
            IF error_type = "OVERALL_PARITY_ERROR" THEN flipBit(received, Nbits, Nbits)
            ELSE IF error_type = "SINGLE_ERROR_CORRECTABLE" /\ inRange
                 THEN flipBit(received, Nbits, error_position)
            ELSE received
        data_corrected ==
            \/ error_type = "OVERALL_PARITY_ERROR"
            \/ error_type = "SINGLE_ERROR_CORRECTABLE" /\ inRange
    IN  [corrected_data |-> ExtractData(w, received),
         syndrome       |-> syndrome,
         error_position |-> error_position,
         error_type     |-> error_type,
         overall_parity |-> overall_parity,
         data_corrected |-> data_corrected,
         word           |-> fixed]

\* decode with the range test of the flip moved into the condition of the
\* single-error branch: a syndrome beyond the codeword falls through
Hamming_decode_rangeInCondition(w, rows, received) ==
    LET Nbits == TOTAL_BITS(w)
        \* cwVec.set(pos - 1, true) for the set positions 1 .. TOTAL_BITS-1
        cwVec == {pos - 1 : pos \in {q \in 1..(Nbits - 1) : getBit(received, Nbits, q)}}
        synVec == PcmSyndrome(rows, cwVec)
        syndrome == SyndromeInt(synVec, 0, PARITY_BITS(w))
        overall_parity == calculated_overall_parity(w, received) # 0
        error_type ==
            IF syndrome = 0 /\ ~overall_parity THEN "NO_ERROR"
            ELSE IF syndrome = 0 /\ overall_parity THEN "OVERALL_PARITY_ERROR"
            ELSE IF syndrome # 0 /\ overall_parity /\ syndrome <= Nbits - 1
                 THEN "SINGLE_ERROR_CORRECTABLE"
            ELSE IF syndrome # 0 /\ ~overall_parity THEN "DOUBLE_ERROR_DETECTABLE"
            ELSE "MULTIPLE_ERROR_UNCORRECTABLE"
        error_position ==
            IF error_type = "OVERALL_PARITY_ERROR" THEN Nbits
            ELSE IF error_type = "SINGLE_ERROR_CORRECTABLE" THEN syndrome
            ELSE 0
        inRange == error_position >= 1 /\ error_position <= Nbits - 1
        fixed ==
            IF error_type = "OVERALL_PARITY_ERROR" THEN flipBit(received, Nbits, Nbits)
            ELSE IF error_type = "SINGLE_ERROR_CORRECTABLE" /\ inRange
                 THEN flipBit(received, Nbits, error_position)
            ELSE received
        data_corrected ==
            \/ error_type = "OVERALL_PARITY_ERROR"
            \/ error_type = "SINGLE_ERROR_CORRECTABLE" /\ inRange
    IN  [corrected_data |-> ExtractData(w, fixed),
         syndrome       |-> syndrome,
         error_position |-> error_position,
         error_type     |-> error_type,
         overall_parity |-> overall_parity,
         data_corrected |-> data_corrected,
         word           |-> fixed]

Hamming_decode(w, rows, received) ==
    LET Nbits == TOTAL_BITS(w)
        \* cwVec.set(pos - 1, true) for the set positions 1 .. TOTAL_BITS-1
        cwVec == {pos - 1 : pos \in {q \in 1..(Nbits - 1) : getBit(received, Nbits, q)}}
        synVec == PcmSyndrome(rows, cwVec)
        syndrome == SyndromeInt(synVec, 0, PARITY_BITS(w))
        overall_parity == calculated_overall_parity(w, received) # 0
        error_type ==
            IF syndrome = 0 /\ ~overall_parity THEN "NO_ERROR"
            ELSE IF syndrome = 0 /\ overall_parity THEN "OVERALL_PARITY_ERROR"
            ELSE IF syndrome # 0 /\ overall_parity THEN "SINGLE_ERROR_CORRECTABLE"
            ELSE IF syndrome # 0 /\ ~overall_parity THEN "DOUBLE_ERROR_DETECTABLE"
            ELSE "MULTIPLE_ERROR_UNCORRECTABLE"
        error_position ==
            IF error_type = "OVERALL_PARITY_ERROR" THEN Nbits
            ELSE IF error_type = "SINGLE_ERROR_CORRECTABLE" THEN syndrome
            ELSE 0
        inRange == error_position >= 1 /\ error_position <= Nbits - 1
        fixed ==
            IF error_type = "OVERALL_PARITY_ERROR" THEN flipBit(received, Nbits, Nbits)
            ELSE IF error_type = "SINGLE_ERROR_CORRECTABLE" /\ inRange
                 THEN flipBit(received, Nbits, error_position)
            ELSE received
        data_corrected ==
            \/ error_type = "OVERALL_PARITY_ERROR"
            \/ error_type = "SINGLE_ERROR_CORRECTABLE" /\ inRange
    IN  [corrected_data |-> ExtractData(w, fixed),
         syndrome       |-> syndrome,
         error_position |-> error_position,
         error_type     |-> error_type,
         overall_parity |-> overall_parity,
         data_corrected |-> data_corrected,
         word           |-> fixed]

\* The events of HammingCodeSECDED::decode that leave the normal path:
\* data_positions[i] beyond the positions getDataPositions returns.  getBit,
\* flipBit and BitVector::get check their position themselves.
Hamming_decode_faults(w, rows, received) ==
    IF Len(dataPositions(w)) < DATA_BITS(w)
    THEN {"data_positions index out of range"} ELSE {}

-----------------------------------------------------------------------------
(* Data words handed to the Hamming codec: the vectors of the unit tests and
   of testKnownVectors, and NumData generated patterns per width. *)

GenWord(k, bits) == {i \in 0..(bits - 1) : ((i * (2 * k + 3) + k) % 5) < 2}

HamData32 == {GenWord(k, 32) : k \in 1..NumData} \cup {{}, HexWord(<<1,2,3,4,5,6,7,8>>)}

HamData64 ==
    {GenWord(k, 64) : k \in 1..NumData}
    \cup {{}, HexWord(<<1,2,3,4,5,6,7,8,9,10,11,12,13,14,15,0>>)}

HamData(w) == IF w = 32 THEN HamData32 ELSE HamData64

NoResult == [error_type |-> "none"]

HamInit ==
    /\ hw \in Widths
    /\ pcm = buildParityCheckMatrix(hw)
    /\ hdata = {}
    /\ hcw = {}
    /\ hflips = {}
    /\ hres = NoResult
    /\ hpc = "idle"

\* the caller encodes a data word and keeps the codeword
HamEncode(d) ==
    /\ hpc = "idle"
    /\ hdata' = d
    /\ hcw' = Hamming_encode(hw, d)
    /\ hflips' = {}
    /\ hpc' = "encoded"
    /\ UNCHANGED <<simVars, satVars, legVars, thrVars, calls, hw, pcm, hres, bchVars, daecVars>>

\* the caller corrupts the stored codeword: CodeWord::flipBit(p)
HamFlip(p) ==
    /\ hpc = "encoded"
    /\ \A q \in hflips : q < p        \* each set of positions once, in increasing order
    /\ Cardinality(hflips) < MaxFlips
    /\ hcw' = flipBit(hcw, TOTAL_BITS(hw), p)
    /\ hflips' = hflips \cup {p}
    /\ UNCHANGED <<simVars, satVars, legVars, thrVars, calls, hw, pcm, hdata, hres, hpc, bchVars, daecVars>>

\* the caller decodes a copy of the stored codeword
HamDecode ==
    /\ hpc = "encoded"
    /\ hres' = Hamming_decode(hw, pcm, hcw)
    /\ hpc' = "decoded"
    /\ Len(calls) < MaxCalls
    /\ calls' = Append(calls, [codec |-> "Hamming", word |-> hcw, result |-> hres'])
    /\ UNCHANGED <<simVars, satVars, legVars, thrVars, hw, pcm, hdata, hcw, hflips, bchVars, daecVars>>

\* resetPCM (AdvancedMemorySimulator::reinitializeECC): the rows are built
\* again as in the constructor
resetPCM ==
    /\ pcm' = buildParityCheckMatrix(hw)
    /\ UNCHANGED <<simVars, satVars, legVars, thrVars, calls, hw, hdata, hcw, hflips, hres, hpc, bchVars, daecVars>>

\* A parity-check-matrix file: whether std::ifstream can open it, and its
\* lines, each a sequence of characters.
IsBinaryChar(c) == c \in {"0", "1"}

\* one line of the file: characters other than '0' and '1' are skipped, the
\* col-th binary character sets bit col when it is '1', the line ends after
\* TOTAL_BITS - 1 binary characters
RowOfLine(w, line) ==
    LET bin == SelectSeq(line, IsBinaryChar)
        cols == IF Len(bin) < TOTAL_BITS(w) - 1 THEN Len(bin) ELSE TOTAL_BITS(w) - 1
    IN  {col \in 0..(cols - 1) : bin[col + 1] = "1"}

HasBinaryChar(line) == \E i \in 1..Len(line) : IsBinaryChar(line[i])

\* the rows pushed while reading the file: one per line with col > 0
RowsOfFile(w, lines) ==
    LET kept == SelectSeq(lines, HasBinaryChar)
    IN  [k \in 1..Len(kept) |-> RowOfLine(w, kept[k])]

\* a row written out as text, n columns
RowText(row, n) == [c \in 1..n |-> IF (c - 1) \in row THEN "1" ELSE "0"]

\* the files handed to loadPCMFromFile: a path that cannot be opened, an
\* empty file, two short rows with separators, a blank line and a row with
\* other characters, the default matrix of the width written out, and a line
\* of ones longer than the codeword
PcmFiles(w) ==
    {[opens |-> FALSE, lines |-> <<>>],
     [opens |-> TRUE, lines |-> <<>>],
     [opens |-> TRUE, lines |-> << <<"1", " ", "0", " ", "1">>, <<"0", "1", "1">> >>],
     [opens |-> TRUE, lines |-> << <<" ", " ">>, <<"x", "1", "y", "1">> >>],
     [opens |-> TRUE,
      lines |-> [k \in 1..PARITY_BITS(w) |->
                    RowText(buildParityCheckMatrix(w)[k], TOTAL_BITS(w) - 1)]],
     [opens |-> TRUE, lines |-> << [c \in 1..(TOTAL_BITS(w) + 3) |-> "1"] >>]}

\* what loadPCMFromFile returns: false when the file cannot be opened,
\* otherwise !pcm_.rows.empty()
loadPCMFromFile_returns(w, f) == f.opens /\ RowsOfFile(w, f.lines) # <<>>

\* loadPCMFromFile that clears the rows before it tries to open the file
loadPCMFromFile_clearsBeforeOpen(f) ==
    /\ pcm' = IF f.opens THEN RowsOfFile(hw, f.lines) ELSE <<>>
    /\ UNCHANGED <<simVars, satVars, legVars, thrVars, calls, hw, hdata, hcw, hflips, hres, hpc, bchVars, daecVars>>

\* loadPCMFromFile(filename), also reached through
\* AdvancedMemorySimulator::loadParityCheckMatrix
loadPCMFromFile(f) ==
    /\ pcm' = IF f.opens THEN RowsOfFile(hw, f.lines) ELSE pcm
    /\ UNCHANGED <<simVars, satVars, legVars, thrVars, calls, hw, hdata, hcw, hflips, hres, hpc, bchVars, daecVars>>

\* Heavier corruption of a stored codeword: one more flip than MaxFlips on
\* the 39-bit code, MaxFlips on the 72-bit code, so that error patterns of
\* weight 3 and syndromes beyond the codeword length occur.
HamMaxErrors(w) == IF w = 32 THEN MaxFlips + 1 ELSE MaxFlips

HamMultiData32 == {HexWord(<<1,2,3,4,5,6,7,8>>), HexWord(<<15,15,15,15,15,15,15,15>>)}

HamMultiData64 == {HexWord(<<1,2,3,4,5,6,7,8,9,10,11,12,13,14,15,0>>)}

HamMultiData(w) == IF w = 32 THEN HamMultiData32 ELSE HamMultiData64

\* CodeWord::flipBit(p) on the stored codeword, up to HamMaxErrors times
HamInject(p) ==
    /\ hpc = "encoded"
    /\ \A q \in hflips : q < p
    /\ Cardinality(hflips) < HamMaxErrors(hw)
    /\ hcw' = flipBit(hcw, TOTAL_BITS(hw), p)
    /\ hflips' = hflips \cup {p}
    /\ UNCHANGED <<simVars, satVars, legVars, thrVars, calls, hw, pcm, hdata, hres, hpc, bchVars, daecVars>>

HamMultiNext ==
    \/ \E d \in HamMultiData(hw) : HamEncode(d)
    \/ \E p \in 1..TOTAL_BITS(hw) : HamInject(p)
    \/ HamDecode

HamNext ==
    \/ \E d \in HamData(hw) : HamEncode(d)
    \/ \E p \in 1..TOTAL_BITS(hw) : HamFlip(p)
    \/ HamDecode

-----------------------------------------------------------------------------
(* BCH63: GF(2^6) field *)

N == 63
M == 6
T == 2
PRIMITIVE_POLY == 67      \* 0x43, x^6 + x + 1

\* a ^ b on non-negative ints
RECURSIVE XorInt(_, _)
XorInt(a, b) ==
    IF a = 0 THEN b
    ELSE IF b = 0 THEN a
    ELSE ((a + b) % 2) + 2 * XorInt(a \div 2, b \div 2)

XorTable == [a \in 0..127 |-> [b \in 0..127 |-> XorInt(a, b)]]

Xor(a, b) == XorTable[a][b]

\* maskForBits(bits) as a set of bit indices
maskForBits(bits) == IF bits >= 64 THEN 0..63 ELSE 0..(bits - 1)

\* one step of buildField: multiply by alpha, reduce by the primitive polynomial
MulAlpha(prev) ==
    LET shifted == prev * 2
        next == IF (shifted \div (2^M)) % 2 = 1
                THEN Xor(shifted, PRIMITIVE_POLY) ELSE shifted
    IN  next % (2^M)

\* the table as the sequence alpha_to_[0], alpha_to_[1], ...
RECURSIVE AlphaSeq(_, _)
AlphaSeq(i, seq) ==
    IF i >= N THEN seq ELSE AlphaSeq(i + 1, Append(seq, MulAlpha(seq[i])))

AlphaTable == AlphaSeq(1, <<1>>)

\* buildField
alpha_to == [i \in 0..(N - 1) |-> AlphaTable[i + 1]]

index_of ==
    [v \in 0..(2^M - 1) |->
        IF v = 0 \/ ~(\E i \in 0..(N - 1) : alpha_to[i] = v) THEN -1
        ELSE CHOOSE i \in 0..(N - 1) :
                /\ alpha_to[i] = v
                /\ \A j \in 0..(N - 1) : alpha_to[j] = v => j <= i]

gfMul(a, b) ==
    IF a = 0 \/ b = 0 THEN 0
    ELSE alpha_to[(index_of[a] + index_of[b]) % N]

\* for a # 0; gfInv(0) throws std::invalid_argument (see BMStep)
gfInv(a) == alpha_to[(N - index_of[a]) % N]

-----------------------------------------------------------------------------
(* BCH63: generator polynomial.  A polynomial is the sequence of its
   coefficients, lowest degree first (std::vector<int>). *)

RECURSIVE TrimPoly(_)
TrimPoly(p) ==
    IF Len(p) > 1 /\ p[Len(p)] = 0 THEN TrimPoly(SubSeq(p, 1, Len(p) - 1)) ELSE p

\* the conjugate class {e, 2e, 4e, ...} mod N in the order the loop visits it
RECURSIVE ConjugateClass(_, _, _)
ConjugateClass(exponent, current, acc) ==
    LET cls == Append(acc, current)
        nxt == (current * 2) % N
    IN  IF nxt = exponent % N THEN cls ELSE ConjugateClass(exponent, nxt, cls)

\* one factor (x + alpha^exp) multiplied into poly
MulByRoot(poly, exp) ==
    LET root == alpha_to[exp]
        n == Len(poly)
    IN  [i \in 1..(n + 1) |->
            Xor(IF i <= n /\ poly[i] # 0 THEN gfMul(poly[i], root) ELSE 0,
                IF i >= 2 THEN poly[i - 1] ELSE 0)]

RECURSIVE ExpandClass(_, _, _)
ExpandClass(cls, k, poly) ==
    IF k > Len(cls) THEN poly ELSE ExpandClass(cls, k + 1, MulByRoot(poly, cls[k]))

\* throws std::runtime_error on a non-binary coefficient: modelled as <<>>
minimalPolynomialFromClass(cls) ==
    LET poly == ExpandClass(cls, 1, <<1>>)
    IN  IF \E i \in 1..Len(poly) : poly[i] \notin {0, 1} THEN <<>>
        ELSE TrimPoly(poly)

minimalPolynomialFor(exponent) ==
    minimalPolynomialFromClass(ConjugateClass(exponent, exponent % N, <<>>))

polyMultiplyGF2(a, b) ==
    TrimPoly([k \in 1..(Len(a) + Len(b) - 1) |->
        Parity({i \in 1..Len(a) :
                   a[i] # 0 /\ k - i + 1 \in 1..Len(b) /\ b[k - i + 1] # 0})])

ClassSet(exponent) ==
    LET cls == ConjugateClass(exponent, exponent % N, <<>>)
    IN  {cls[i] : i \in 1..Len(cls)}

\* buildGenerator without the visited marks: one factor per exponent 1..2T
RECURSIVE BuildGeneratorFrom_withoutVisited(_, _, _)
BuildGeneratorFrom_withoutVisited(i, visited, gen) ==
    IF i > 2 * T THEN gen
    ELSE BuildGeneratorFrom_withoutVisited(i + 1, visited,
             polyMultiplyGF2(gen, minimalPolynomialFor(i % N)))

RECURSIVE BuildGeneratorFrom(_, _, _)
BuildGeneratorFrom(i, visited, gen) ==
    IF i > 2 * T THEN gen
    ELSE IF i \in visited THEN BuildGeneratorFrom(i + 1, visited, gen)
    ELSE BuildGeneratorFrom(i + 1, visited \cup ClassSet(i % N),
                            polyMultiplyGF2(gen, minimalPolynomialFor(i % N)))

\* buildGenerator
generator == BuildGeneratorFrom(1, {}, <<1>>)
generator_degree == Len(generator) - 1
k_ == N - generator_degree
\* the mask loop started at i = 1: the constant term of the generator is lost
generator_mask_withoutConstantTerm ==
    {i \in 1..(Len(generator) - 1) : generator[i + 1] # 0}

generator_mask == {i \in 0..(Len(generator) - 1) : generator[i + 1] # 0}

-----------------------------------------------------------------------------
(* BCH63: codec.  A Codeword (std::array<bool, N>) is the set of the
   positions holding true; a std::vector<bool> is a sequence of BOOLEAN. *)

CodewordGetBit(cw, pos) == IF pos < 0 \/ pos >= N THEN FALSE ELSE pos \in cw

CodewordFlipBit(cw, pos) == IF pos < 0 \/ pos >= N THEN cw ELSE SymDiff(cw, {pos})

\* 63 - __builtin_clzll(x) for x # 0
Degree(x) == CHOOSE d \in x : \A e \in x : e <= d

\* divisor == 0 throws std::invalid_argument; the generator mask is never 0
RECURSIVE polynomialMod(_, _)
polynomialMod(dividend, divisor) ==
    IF dividend # {} /\ Degree(dividend) >= Degree(divisor)
    THEN LET shift == Degree(dividend) - Degree(divisor)
         IN  polynomialMod(
                 SymDiff(dividend, {d + shift : d \in divisor} \cap (0..63)),
                 divisor)
    ELSE dividend

\* a faulty variant of encode that shifts the message but never adds the
\* remainder (the parity bits stay zero): the round trip C4 must notice it
BCH63_encode_withoutRemainder(data_bits) ==
    LET message == {i \in 0..(k_ - 1) : data_bits[i + 1]}
        shifted == {i + generator_degree : i \in message} \cap (0..63)
        codeword_value == shifted \cap maskForBits(N)
    IN  {i \in 0..(N - 1) : i \in codeword_value}

\* requires data_bits.size() == k_, otherwise throws std::invalid_argument
BCH63_encode(data_bits) ==
    LET message == {i \in 0..(k_ - 1) : data_bits[i + 1]}
        shifted == {i + generator_degree : i \in message} \cap (0..63)
        remainder == polynomialMod(shifted, generator_mask)
        codeword_value == SymDiff(shifted, remainder) \cap maskForBits(N)
    IN  {i \in 0..(N - 1) : i \in codeword_value}

extractData(codeword) ==
    [i \in 1..k_ |-> CodewordGetBit(codeword, generator_degree + (i - 1))]

BitsOf(v) == {b \in 0..(M - 1) : (v \div (2^b)) % 2 = 1}

\* the set bits of a uint8_t
BitsOfByte(v) == {b \in 0..7 : (v \div (2^b)) % 2 = 1}

RECURSIVE IntOf(_)
IntOf(bits) ==
    IF bits = {} THEN 0
    ELSE LET b == CHOOSE x \in bits : TRUE IN 2^b + IntOf(bits \ {b})

\* the positions j whose term alpha_to_[((i+1)*j) % N] of syndrome i (here
\* 1-based) has bit b set
syndrome_terms ==
    [i \in 1..(2 * T) |-> [b \in 0..(M - 1) |->
        {j \in 0..(N - 1) : b \in BitsOf(alpha_to[(i * j) % N])}]]

\* a faulty variant of computeSyndromes that fills only the first T of the 2T
\* syndromes: triple-error detection C6 must notice it
computeSyndromes_firstTOnly(cw) ==
    LET ones == {j \in 0..(N - 1) : CodewordGetBit(cw, j)}
    IN  [i \in 1..(2 * T) |->
            IF i > T THEN 0
            ELSE IntOf({b \in 0..(M - 1) : Parity(ones \cap syndrome_terms[i][b]) = 1})]

\* syndromes[i] ^= alpha_to_[((i+1)*j) % N] for every set bit j: bit b of the
\* accumulated XOR is the parity of the number of terms that have bit b set
computeSyndromes(cw) ==
    LET ones == {j \in 0..(N - 1) : CodewordGetBit(cw, j)}
    IN  [i \in 1..(2 * T) |->
            IntOf({b \in 0..(M - 1) : Parity(ones \cap syndrome_terms[i][b]) = 1})]

\* the lambdas of berlekampMassey
polyAdd(a, b_vec) ==
    LET n == IF Len(a) >= Len(b_vec) THEN Len(a) ELSE Len(b_vec)
    IN  TrimPoly([i \in 1..n |->
                    Xor(IF i <= Len(a) THEN a[i] ELSE 0,
                        IF i <= Len(b_vec) THEN b_vec[i] ELSE 0)])

scaleAndShift(poly, scalar, shift) ==
    IF scalar = 0 THEN <<0>>
    ELSE [i \in 1..(Len(poly) + shift) |->
            IF i > shift /\ poly[i - shift] # 0
            THEN gfMul(poly[i - shift], scalar) ELSE 0]

\* the discrepancy loop: d ^= gfMul(C[i], syndromes[n - i]) for i = 1..L
RECURSIVE Discrepancy(_, _, _, _, _)
Discrepancy(syndromes, C, L, n, i) ==
    IF i > L \/ i >= Len(C) THEN 0
    ELSE Xor(IF C[i + 1] # 0 /\ syndromes[n - i + 1] # 0
             THEN gfMul(C[i + 1], syndromes[n - i + 1]) ELSE 0,
             Discrepancy(syndromes, C, L, n, i + 1))

\* berlekampMassey with b = d stored on every iteration, also when d is 0
BMStep_bAlwaysStored(st, syndromes, n) ==
    LET d == Xor(syndromes[n + 1], Discrepancy(syndromes, st.C, st.L, n, 1))
    IN  IF st.threw THEN st
        ELSE IF d = 0 THEN [st EXCEPT !.m = st.m + 1, !.b = d]
        ELSE IF st.b = 0 THEN [st EXCEPT !.threw = TRUE]
        ELSE LET coef == gfMul(d, gfInv(st.b))
                 adjustment == scaleAndShift(st.B, coef, st.m)
                 newC == polyAdd(st.C, adjustment)
             IN  IF 2 * st.L <= n
                 THEN [C |-> newC, B |-> st.C, L |-> n + 1 - st.L, m |-> 1, b |-> d,
                       threw |-> FALSE]
                 ELSE [st EXCEPT !.C = newC, !.m = st.m + 1]

\* one iteration n of the main loop on the state [C, B, L, m, b]; threw
\* records that gfInv(b) was reached with b = 0 and the exception left the loop
BMStep(st, syndromes, n) ==
    LET d == Xor(syndromes[n + 1], Discrepancy(syndromes, st.C, st.L, n, 1))
    IN  IF st.threw THEN st
        ELSE IF d = 0 THEN [st EXCEPT !.m = st.m + 1]
        ELSE IF st.b = 0 THEN [st EXCEPT !.threw = TRUE]
        ELSE LET coef == gfMul(d, gfInv(st.b))
                 adjustment == scaleAndShift(st.B, coef, st.m)
                 newC == polyAdd(st.C, adjustment)
             IN  IF 2 * st.L <= n
                 THEN [C |-> newC, B |-> st.C, L |-> n + 1 - st.L, m |-> 1, b |-> d,
                       threw |-> FALSE]
                 ELSE [st EXCEPT !.C = newC, !.m = st.m + 1]

RECURSIVE BMLoop(_, _, _)
BMLoop(st, syndromes, n) ==
    IF n >= 2 * T THEN st ELSE BMLoop(BMStep(st, syndromes, n), syndromes, n + 1)

BMRun(syndromes) ==
    BMLoop([C |-> <<1>>, B |-> <<1>>, L |-> 0, m |-> 1, b |-> 1, threw |-> FALSE],
           syndromes, 0)

berlekampMassey(syndromes) == BMRun(syndromes).C

\* sum = locator[0] ^ gfMul(locator[j], alpha^((N - i) * j)) for j >= 1
RECURSIVE ChienSum(_, _, _)
ChienSum(locator, i, j) ==
    IF j >= Len(locator) THEN 0
    ELSE Xor(IF locator[j + 1] = 0 THEN 0
             ELSE gfMul(locator[j + 1], alpha_to[((N - i) * j) % N]),
             ChienSum(locator, i, j + 1))

RECURSIVE Ascending(_)
Ascending(S) ==
    IF S = {} THEN <<>>
    ELSE LET lo == CHOOSE x \in S : \A y \in S : x <= y
         IN  <<lo>> \o Ascending(S \ {lo})

\* a faulty variant of chienSearch whose loop stops one position early
\* (i < N - 1): correction of weight-1 and weight-2 errors C5 must notice it
chienSearch_stopsEarly(locator) ==
    IF Len(locator) - 1 <= 0 THEN <<>>
    ELSE Ascending({i \in 0..(N - 2) :
                      Xor(locator[1], ChienSum(locator, i, 1)) = 0})

chienSearch(locator) ==
    IF Len(locator) - 1 <= 0 THEN <<>>
    ELSE Ascending({i \in 0..(N - 1) :
                      Xor(locator[1], ChienSum(locator, i, 1)) = 0})

RECURSIVE FlipAll(_, _, _)
FlipAll(cw, locs, k) ==
    IF k > Len(locs) THEN cw ELSE FlipAll(CodewordFlipBit(cw, locs[k]), locs, k + 1)

AllZero(syn) == \A i \in 1..Len(syn) : syn[i] = 0

\* a faulty variant of decode that accepts a locator of any positive degree
\* (no degree > T test): strict success C7 must notice it
BCH63_decode_anyDegree(received) ==
    LET failure == [detected |-> TRUE, success |-> FALSE, corrected |-> received,
                    data |-> extractData(received), error_locations |-> <<>>]
        syndromes == computeSyndromes(received)
        locator == berlekampMassey(syndromes)
        degree == Len(locator) - 1
        error_locations == chienSearch(locator)
        corrected == FlipAll(received, error_locations, 1)
    IN  IF AllZero(syndromes)
        THEN [failure EXCEPT !.detected = FALSE, !.success = TRUE]
        ELSE IF degree <= 0 THEN failure
        ELSE IF Len(error_locations) # degree THEN failure
        ELSE IF ~AllZero(computeSyndromes(corrected)) THEN failure
        ELSE [detected |-> TRUE, success |-> TRUE, corrected |-> corrected,
              data |-> extractData(corrected), error_locations |-> error_locations]

\* decode that extracts result.data only on the paths that succeed
BCH63_decode_dataOnSuccess(received) ==
    LET failure == [detected |-> TRUE, success |-> FALSE, corrected |-> received,
                    data |-> <<>>, error_locations |-> <<>>]
        syndromes == computeSyndromes(received)
        locator == berlekampMassey(syndromes)
        degree == Len(locator) - 1
        error_locations == chienSearch(locator)
        corrected == FlipAll(received, error_locations, 1)
    IN  IF AllZero(syndromes)
        THEN [failure EXCEPT !.detected = FALSE, !.success = TRUE,
                             !.data = extractData(received)]
        ELSE IF degree <= 0 \/ degree > T THEN failure
        ELSE IF Len(error_locations) # degree THEN failure
        ELSE IF ~AllZero(computeSyndromes(corrected)) THEN failure
        ELSE [detected |-> TRUE, success |-> TRUE, corrected |-> corrected,
              data |-> extractData(corrected), error_locations |-> error_locations]

BCH63_decode(received) ==
    LET failure == [detected |-> TRUE, success |-> FALSE, corrected |-> received,
                    data |-> extractData(received), error_locations |-> <<>>]
        syndromes == computeSyndromes(received)
        locator == berlekampMassey(syndromes)
        degree == Len(locator) - 1
        error_locations == chienSearch(locator)
        corrected == FlipAll(received, error_locations, 1)
    IN  IF AllZero(syndromes)
        THEN [failure EXCEPT !.detected = FALSE, !.success = TRUE]
        ELSE IF degree <= 0 \/ degree > T THEN failure
        ELSE IF Len(error_locations) # degree THEN failure
        ELSE IF ~AllZero(computeSyndromes(corrected)) THEN failure
        ELSE [detected |-> TRUE, success |-> TRUE, corrected |-> corrected,
              data |-> extractData(corrected), error_locations |-> error_locations]

\* The events of berlekampMassey that leave the normal path, from iteration n
\* on: a read of syndromes[n - i] outside the array, a field element outside
\* index_of_ handed to gfMul, and gfInv(b) called with b = 0 (which throws).
RECURSIVE BMFaults(_, _, _)
BMFaults(st, syndromes, n) ==
    IF n >= 2 * T \/ st.threw THEN {}
    ELSE LET reads == {i \in 1..st.L : i < Len(st.C)}
             badIndex == \E i \in reads : n - i < 0 \/ n - i >= 2 * T
             badElement ==
                 \/ \E i \in 1..Len(st.C) : st.C[i] \notin 0..(2^M - 1)
                 \/ \E i \in 1..Len(st.B) : st.B[i] \notin 0..(2^M - 1)
                 \/ st.b \notin 0..(2^M - 1)
         IN  IF badIndex THEN {"syndromes index out of range"}
             ELSE IF badElement THEN {"index_of_ index out of range"}
             ELSE LET d == Xor(syndromes[n + 1], Discrepancy(syndromes, st.C, st.L, n, 1))
                  IN  (IF d # 0 /\ st.b = 0 THEN {"gfInv(0)"} ELSE {})
                      \cup BMFaults(BMStep(st, syndromes, n), syndromes, n + 1)

\* The events of BCH63::decode(received) that leave the normal path: those of
\* berlekampMassey, and in chienSearch a locator coefficient outside
\* index_of_.  computeSyndromes and chienSearch index alpha_to_ with a value
\* reduced mod N; gfDiv is not called by decode.
BCH63_decode_faults(received) ==
    LET syndromes == computeSyndromes(received)
        start == [C |-> <<1>>, B |-> <<1>>, L |-> 0, m |-> 1, b |-> 1, threw |-> FALSE]
        bm == BMFaults(start, syndromes, 0)
        locator == berlekampMassey(syndromes)
    IN  IF AllZero(syndromes) THEN {}
        ELSE IF \E i \in 1..(2 * T) : syndromes[i] \notin 0..(2^M - 1)
             THEN {"index_of_ index out of range"}
        ELSE IF bm # {} THEN bm
        ELSE IF Len(locator) - 1 <= 0 \/ Len(locator) - 1 > T THEN {}
        ELSE IF \E j \in 1..Len(locator) : locator[j] \notin 0..(2^M - 1)
             THEN {"index_of_ index out of range"}
        ELSE {}

-----------------------------------------------------------------------------
(* BCH63: the caller (test fixture BCH63Test): encode a message, flip bits of
   the codeword, decode. *)

\* number of generated messages besides makeMessage of the unit test
NumMsgs == 1

\* error patterns up to the first weight beyond the correction capability
BchMaxErrors == T + 1

makeMessage(length) == [i \in 1..length |-> ((i - 1) * 37 + 5) % 2 # 0]

GenMessage(g) == [i \in 1..k_ |-> (((i - 1) * (2 * g + 5) + g) % 7) < 3]

BchMessages == {makeMessage(k_)} \cup {GenMessage(g) : g \in 1..NumMsgs}

BchNoResult == [detected |-> FALSE, success |-> FALSE, corrected |-> {},
                data |-> <<>>, error_locations |-> <<>>]

BchInit ==
    /\ bmsg = <<>>
    /\ bcw = {}
    /\ bclean = {}
    /\ bflips = {}
    /\ bres = BchNoResult
    /\ bpc = "idle"

BchEncode(m) ==
    /\ bpc = "idle"
    /\ Len(m) = k_
    /\ bmsg' = m
    /\ bcw' = BCH63_encode(m)
    /\ bclean' = bcw'
    /\ bflips' = {}
    /\ bpc' = "encoded"
    /\ UNCHANGED <<simVars, satVars, legVars, thrVars, calls, bres, hamVars, daecVars>>

\* corrupted.flipBit(p)
BchFlip(p) ==
    /\ bpc = "encoded"
    /\ \A q \in bflips : q < p        \* each set of positions once, in increasing order
    /\ Cardinality(bflips) < BchMaxErrors
    /\ bcw' = CodewordFlipBit(bcw, p)
    /\ bflips' = bflips \cup {p}
    /\ UNCHANGED <<simVars, satVars, legVars, thrVars, calls, bmsg, bclean, bres, bpc, hamVars, daecVars>>

BchDecode ==
    /\ bpc = "encoded"
    /\ bres' = BCH63_decode(bcw)
    /\ bpc' = "decoded"
    /\ Len(calls) < MaxCalls
    /\ calls' = Append(calls, [codec |-> "BCH63", word |-> bcw, result |-> bres'])
    /\ UNCHANGED <<simVars, satVars, legVars, thrVars, bmsg, bcw, bclean, bflips, hamVars, daecVars>>

\* the messages with at most two bits set, which span all 2^k messages
\* (encode is linear over GF(2)), and the messages of BchMessages
BchEncodeMessages ==
    {[i \in 1..k_ |-> (i - 1) \in S] :
        S \in {{a, b} : a \in 0..(k_ - 1), b \in 0..(k_ - 1)} \cup {{}}}
    \cup BchMessages

\* encode alone
BchEncodeNext == \E m \in BchEncodeMessages : BchEncode(m)

BchNext ==
    \/ \E m \in BchMessages : BchEncode(m)
    \/ \E p \in 0..(N - 1) : BchFlip(p)
    \/ BchDecode

-----------------------------------------------------------------------------
(* SecDaec64 (the BitVector-based SecDaec64.hpp).  Codeword indices are
   0-based; CodeWord::bits is a BitVector. *)

SecDaec_DATA_BITS == 64
SecDaec_PARITY_BITS == 8
SecDaec_TOTAL_BITS == SecDaec_DATA_BITS + SecDaec_PARITY_BITS + 1

base == <<1, 2, 4, 8, 16, 32, 64>>

\* SecDaec64::SecDaec64: parityPos[i] = base[i] - 1, parityPos[7] = 69
parityPos == [p \in 1..SecDaec_PARITY_BITS |-> IF p <= 7 THEN base[p] - 1 ELSE 69]

\* daecRow ^= (1ULL << i) | (1ULL << (i + 1)) for i = 0..DATA_BITS-2: a bit
\* stays set when it was toggled an odd number of times
daecRow ==
    {bit \in 0..63 :
        Parity({i \in 0..(SecDaec_DATA_BITS - 2) : bit = i \/ bit = i + 1}) = 1}

\* SecDaec64::SecDaec64: H.rows
H ==
    [p \in 1..SecDaec_PARITY_BITS |->
        IF p <= 7
        THEN {pos - 1 : pos \in {q \in 1..(SecDaec_TOTAL_BITS - 1) : AndNZ(q, base[p])}}
        ELSE daecRow]

SecDaec_isParityPosition(pos) ==
    \/ \E p \in 1..SecDaec_PARITY_BITS : pos = parityPos[p]
    \/ pos = SecDaec_TOTAL_BITS - 1

SecDaec_getDataPositions ==
    Ascending({i \in 0..(SecDaec_TOTAL_BITS - 2) : ~SecDaec_isParityPosition(i)})

\* placeDataBits: the k-th non-parity index below TOTAL_BITS-1 receives data
\* bit k (word.set(i, true) only when the bit is 1)
placeDataBits(word, data) ==
    LET free == Ascending({i \in 0..(SecDaec_TOTAL_BITS - 2) :
                             ~(\E p \in 1..SecDaec_PARITY_BITS : i = parityPos[p])
                             /\ i # SecDaec_TOTAL_BITS - 1})
    IN  UNION ({word} \cup
               {BitVectorSet({}, free[dataBit + 1], TRUE) :
                   dataBit \in {k \in 0..(Len(free) - 1) : k \in data /\ k <= 63}})

RECURSIVE SecDaec_SetParities(_, _)
SecDaec_SetParities(p, bits) ==
    IF p > 7 THEN bits
    ELSE SecDaec_SetParities(p + 1,
             BitVectorSet(bits, parityPos[p], Parity(H[p] \cap bits) = 1))

SecDaec64_encode(data) ==
    LET placed == placeDataBits({}, data)
        hamming == SecDaec_SetParities(1, placed)
        daec == Parity({i \in 0..(SecDaec_DATA_BITS - 2) :
                          (i \in data) # ((i + 1) \in data)}) = 1
        withDaec == BitVectorSet(hamming, parityPos[8], daec)
        ovp == Parity(withDaec) = 1
    IN  BitVectorSet(withDaec, SecDaec_TOTAL_BITS - 1, ovp)

bitFromSyndrome(s) == s - 1

\* the loop of bitsFromDoubleAdj that fills the static table: table[syndrome
\* of the pair (i, i+1)] = {i, i+1} for i = 0..TOTAL_BITS-2 in order, so the
\* last pair with a given syndrome stays
PairSyndrome(i) == SyndromeInt(PcmSyndrome(H, {i, i + 1}), 0, SecDaec_PARITY_BITS)

BuildAdjTable ==
    [s \in 0..(2^SecDaec_PARITY_BITS - 1) |->
        LET hits == {i \in 0..(SecDaec_TOTAL_BITS - 2) : PairSyndrome(i) = s}
        IN  IF hits = {} THEN <<0, 0>>
            ELSE LET last == CHOOSE i \in hits : \A j \in hits : j <= i
                 IN  <<last, last + 1>>]

ZeroAdjTable == [s \in 0..(2^SecDaec_PARITY_BITS - 1) |-> <<0, 0>>]

Abs(x) == IF x < 0 THEN -x ELSE x

SecDaec_extract(bits) ==
    {i \in 0..(SecDaec_DATA_BITS - 1) :
        BitVectorGet(bits, SecDaec_getDataPositions[i + 1])}

SecDaec_flip(bits, b) == BitVectorSet(bits, b, ~BitVectorGet(bits, b))

\* a faulty variant of the syndrome loop that reads only the first 64-bit word
\* of each row and of the received bits (w < 1): adjacent-pair detection C11
\* must notice it
SecDaec_syndrome_firstWordOnly(recv) ==
    SyndromeInt({p \in 0..(SecDaec_PARITY_BITS - 1) :
                    Parity(H[p + 1] \cap recv \cap (0..63)) = 1},
                0, SecDaec_PARITY_BITS)

\* the syndrome loop of decode: bit p of s is the XOR of the received bits
\* selected by H.rows[p]
SecDaec_syndrome(recv) ==
    SyndromeInt({p \in 0..(SecDaec_PARITY_BITS - 1) : Parity(H[p + 1] \cap recv) = 1},
                0, SecDaec_PARITY_BITS)

\* the overall-parity loop of decode: pos = 0 .. TOTAL_BITS-2
SecDaec_ovp(recv) ==
    Parity({pos \in 0..(SecDaec_TOTAL_BITS - 2) : BitVectorGet(recv, pos)}) = 1

\* the Telemetry count of decode: one XOR per set bit of every row of H and
\* one per overall-parity position (the single AND is counted in decode)
decode_xor_ops ==
    Cardinality({<<p, bit>> \in (1..SecDaec_PARITY_BITS) \X (0..127) : bit \in H[p]})
    + (SecDaec_TOTAL_BITS - 1)

\* SecDaec64::decode, tbl being the static table bitsFromDoubleAdj reads
SecDaec64_decode(recv, tbl) ==
    LET s == SecDaec_syndrome(recv)
        ovp == SecDaec_ovp(recv)
        detected == (s # 0) \/ ovp
        t == [xor_ops |-> decode_xor_ops, and_ops |-> 1]
        wt == Cardinality(BitsOfByte(s))
        bits == tbl[s]
        fixed ==
            IF wt = 1 THEN SecDaec_flip(recv, bitFromSyndrome(s))
            ELSE IF wt = 2 /\ Abs(bits[1] - bits[2]) = 1
                 THEN SecDaec_flip(SecDaec_flip(recv, bits[1]), bits[2])
            ELSE recv
    IN  IF s = 0 /\ ~ovp
        THEN [data |-> SecDaec_extract(recv), corrected |-> FALSE,
              detected |-> detected, t |-> t, word |-> recv]
        ELSE [data |-> SecDaec_extract(fixed),
              corrected |-> (wt = 1) \/ (wt = 2 /\ Abs(bits[1] - bits[2]) = 1),
              detected |-> detected, t |-> t, word |-> fixed]

\* The events of SecDaec64::decode(recv) that leave the normal path: H.rows[p]
\* for a row that does not exist, table[s] outside the static table, and
\* dataPos[i] beyond the positions getDataPositions returns.  BitVector::get
\* and set check their position themselves.
SecDaec64_decode_faults(recv) ==
    LET s == SecDaec_syndrome(recv)
        clean == s = 0 /\ ~SecDaec_ovp(recv)
    IN  (IF Len(H) < SecDaec_PARITY_BITS THEN {"H.rows index out of range"} ELSE {})
        \cup (IF ~clean /\ Cardinality(BitsOfByte(s)) = 2
                  /\ s \notin 0..(2^SecDaec_PARITY_BITS - 1)
               THEN {"table index out of range"} ELSE {})
        \cup (IF Len(SecDaec_getDataPositions) < SecDaec_DATA_BITS
               THEN {"dataPos index out of range"} ELSE {})

-----------------------------------------------------------------------------
(* SecDaec64: the caller (SecDaec64_test): encode, flip bits of cw.bits,
   decode. *)

\* 0x12345678abcdef of the unit test, 0, 1, and NumData generated words
DaecData ==
    {{}, {0}, HexWord(<<1,2,3,4,5,6,7,8,10,11,12,13,14,15>>)}
    \cup {GenWord(g, SecDaec_DATA_BITS) : g \in 1..NumData}

DaecNoResult == [data |-> {}, corrected |-> FALSE, detected |-> FALSE,
                 t |-> [xor_ops |-> 0, and_ops |-> 0], word |-> {}]

DaecInit ==
    /\ ddata = {}
    /\ dcw = {}
    /\ dflips = {}
    /\ dres = DaecNoResult
    /\ dpc = "idle"
    /\ table_init = FALSE
    /\ table = ZeroAdjTable
    /\ secdaec_energy_csv = <<>>

DaecEncode(d) ==
    /\ dpc = "idle"
    /\ ddata' = d
    /\ dcw' = SecDaec64_encode(d)
    /\ dflips' = {}
    /\ dpc' = "encoded"
    /\ UNCHANGED <<simVars, satVars, legVars, thrVars, calls, dres, table_init, table, secdaec_energy_csv, hamVars, bchVars>>

\* cw.bits.set(b, !cw.bits.get(b))
DaecFlip(b) ==
    /\ dpc = "encoded"
    /\ \A q \in dflips : q < b        \* each set of indices once, in increasing order
    /\ Cardinality(dflips) < MaxFlips
    /\ dcw' = SecDaec_flip(dcw, b)
    /\ dflips' = dflips \cup {b}
    /\ UNCHANGED <<simVars, satVars, legVars, thrVars, calls, ddata, dres, dpc, table_init, table, secdaec_energy_csv, hamVars, bchVars>>

\* decode whose lookup returns table[s] as it stands and fills the table
\* afterwards
DaecDecode_readsBeforeInit ==
    /\ dpc = "encoded"
    /\ LET s == SecDaec_syndrome(dcw)
           lookup == ~(s = 0 /\ ~SecDaec_ovp(dcw)) /\ Cardinality(BitsOfByte(s)) = 2
       IN  /\ table' = IF lookup /\ ~table_init THEN BuildAdjTable ELSE table
           /\ table_init' = (table_init \/ lookup)
           /\ dres' = SecDaec64_decode(dcw, table)
           /\ secdaec_energy_csv' =
                 Append(secdaec_energy_csv, <<dres'.t.xor_ops, dres'.t.and_ops>>)
    /\ dpc' = "decoded"
    /\ Len(calls) < MaxCalls
    /\ calls' = Append(calls, [codec |-> "SecDaec64", word |-> dcw, result |-> dres'])
    /\ UNCHANGED <<simVars, satVars, legVars, thrVars, ddata, dcw, dflips, hamVars, bchVars>>

\* decode reaches bitsFromDoubleAdj exactly when the word is not clean and the
\* syndrome has weight 2; the first such call fills the static table
DaecDecode ==
    /\ dpc = "encoded"
    /\ LET s == SecDaec_syndrome(dcw)
           lookup == ~(s = 0 /\ ~SecDaec_ovp(dcw)) /\ Cardinality(BitsOfByte(s)) = 2
           tbl == IF lookup /\ ~table_init THEN BuildAdjTable ELSE table
       IN  /\ table' = tbl
           /\ table_init' = (table_init \/ lookup)
           /\ dres' = SecDaec64_decode(dcw, tbl)
           /\ secdaec_energy_csv' =
                 Append(secdaec_energy_csv, <<dres'.t.xor_ops, dres'.t.and_ops>>)
    /\ dpc' = "decoded"
    /\ Len(calls) < MaxCalls
    /\ calls' = Append(calls, [codec |-> "SecDaec64", word |-> dcw, result |-> dres'])
    /\ UNCHANGED <<simVars, satVars, legVars, thrVars, ddata, dcw, dflips, hamVars, bchVars>>

DaecNext ==
    \/ \E d \in DaecData : DaecEncode(d)
    \/ \E b \in 0..(SecDaec_TOTAL_BITS - 1) : DaecFlip(b)
    \/ DaecDecode

-----------------------------------------------------------------------------
(* SecDaec64 shared by threads.  bitsFromDoubleAdj keeps its table and the
   flag init in function-local statics without any synchronisation, so the
   steps of two calls interleave: the test of init, the loop that zeroes the
   table, the loop that fills it, the store init = true, the read table[s].
   A plain read that runs while another thread is writing is a data race; it
   may deliver the old or the new contents. *)

Threads == {1, 2}

ThrInit ==
    /\ thr_pc = [t \in Threads |-> "idle"]
    /\ thr_s = [t \in Threads |-> 0]
    /\ thr_ret = [t \in Threads |-> <<>>]

\* the words the threads decode: the codeword encode returns for
\* 0x12345678abcdef, as it is (no lookup) and with the bits of one of three
\* sets flipped (syndromes 72, 3 and 129, all of weight 2)
ThrWords ==
    LET cw == SecDaec64_encode(HexWord(<<1,2,3,4,5,6,7,8,10,11,12,13,14,15>>))
    IN  {SymDiff(cw, F) : F \in {{}, {13}, {68}, {0, 69}}}

\* the thread is inside the if(!init) block
Building(t) == thr_pc[t] \in {"zero", "fill", "setinit"}

\* the thread is about to write the table
Writing(t) == thr_pc[t] \in {"zero", "fill"}

\* decode(recv) up to the call of bitsFromDoubleAdj(s); a clean word or a
\* syndrome of weight other than 2 returns without a lookup
ThrCall(t, recv) ==
    /\ thr_pc[t] = "idle"
    /\ LET s == SecDaec_syndrome(recv)
           lookup == ~(s = 0 /\ ~SecDaec_ovp(recv)) /\ Cardinality(BitsOfByte(s)) = 2
       IN  /\ thr_s' = [thr_s EXCEPT ![t] = s]
           /\ thr_pc' = [thr_pc EXCEPT ![t] = IF lookup THEN "check" ELSE "done"]
    /\ UNCHANGED <<simVars, satVars, legVars, calls, thr_ret, hamVars, bchVars, daecVars>>

\* if(!init): a plain read of init; while another thread is inside the block
\* its store init = true may already be visible
ThrCheck(t) ==
    /\ thr_pc[t] = "check"
    /\ \E seen \in {table_init} \cup {TRUE : u \in {v \in Threads \ {t} : Building(v)}} :
           thr_pc' = [thr_pc EXCEPT ![t] = IF seen THEN "read" ELSE "zero"]
    /\ UNCHANGED <<simVars, satVars, legVars, calls, thr_s, thr_ret, hamVars, bchVars, daecVars>>

\* for idx: table[idx] = {0,0}
ThrZero(t) ==
    /\ thr_pc[t] = "zero"
    /\ table' = ZeroAdjTable
    /\ thr_pc' = [thr_pc EXCEPT ![t] = "fill"]
    /\ UNCHANGED <<simVars, satVars, legVars, calls, thr_s, thr_ret, hamVars, bchVars,
                   ddata, dcw, dflips, dres, dpc, table_init, secdaec_energy_csv>>

\* for i: table[synInt] = {i,j}
ThrFill(t) ==
    /\ thr_pc[t] = "fill"
    /\ table' = BuildAdjTable
    /\ thr_pc' = [thr_pc EXCEPT ![t] = "setinit"]
    /\ UNCHANGED <<simVars, satVars, legVars, calls, thr_s, thr_ret, hamVars, bchVars,
                   ddata, dcw, dflips, dres, dpc, table_init, secdaec_energy_csv>>

\* init = true
ThrSetInit(t) ==
    /\ thr_pc[t] = "setinit"
    /\ table_init' = TRUE
    /\ thr_pc' = [thr_pc EXCEPT ![t] = "read"]
    /\ UNCHANGED <<simVars, satVars, legVars, calls, thr_s, thr_ret, hamVars, bchVars,
                   ddata, dcw, dflips, dres, dpc, table, secdaec_energy_csv>>

\* return table[s]; racing with a writer the read delivers the entry as it
\* is, as the zeroing loop leaves it, or as the filling loop leaves it
ThrRead(t) ==
    /\ thr_pc[t] = "read"
    /\ \E v \in {table[thr_s[t]]}
              \cup (IF \E u \in Threads \ {t} : Writing(u)
                    THEN {ZeroAdjTable[thr_s[t]], BuildAdjTable[thr_s[t]]} ELSE {}) :
           thr_ret' = [thr_ret EXCEPT ![t] = v]
    /\ thr_pc' = [thr_pc EXCEPT ![t] = "done"]
    /\ UNCHANGED <<simVars, satVars, legVars, calls, thr_s, hamVars, bchVars, daecVars>>

ThrNext ==
    \E t \in Threads :
        \/ \E recv \in ThrWords : ThrCall(t, recv)
        \/ ThrCheck(t)
        \/ ThrZero(t)
        \/ ThrFill(t)
        \/ ThrSetInit(t)
        \/ ThrRead(t)

-----------------------------------------------------------------------------
(* Decoding words that no encoder produced: the caller fills a codeword
   container bit by bit (setBit / BitVector::set) with an arbitrary pattern,
   flips further bits and hands the word to decode. *)

\* an arbitrary pattern of n bits
RawWord(n) == {i \in 0..(n - 1) : ((i * i + i \div 3) % 4) < 2}

HamReceive(r) ==
    /\ hpc = "idle" /\ bpc = "idle" /\ dpc = "idle"
    /\ hdata' = {}
    /\ hcw' = r
    /\ hflips' = {}
    /\ hpc' = "encoded"
    /\ UNCHANGED <<simVars, satVars, legVars, thrVars, calls, hw, pcm, hres, bchVars, daecVars>>

BchReceive(r) ==
    /\ hpc = "idle" /\ bpc = "idle" /\ dpc = "idle"
    /\ hw = 32
    /\ bmsg' = <<>>
    /\ bcw' = r
    /\ bclean' = r
    /\ bflips' = {}
    /\ bpc' = "encoded"
    /\ UNCHANGED <<simVars, satVars, legVars, thrVars, calls, bres, hamVars, daecVars>>

DaecReceive(r) ==
    /\ hpc = "idle" /\ bpc = "idle" /\ dpc = "idle"
    /\ hw = 32
    /\ ddata' = {}
    /\ dcw' = r
    /\ dflips' = {}
    /\ dpc' = "encoded"
    /\ UNCHANGED <<simVars, satVars, legVars, thrVars, calls, dres, table_init, table, secdaec_energy_csv, hamVars, bchVars>>

RawNext ==
    \/ HamReceive(RawWord(TOTAL_BITS(hw)))
    \/ \E p \in 1..TOTAL_BITS(hw) : HamFlip(p)
    \/ HamDecode
    \/ BchReceive(RawWord(N))
    \/ \E p \in 0..(N - 1) : BchFlip(p)
    \/ BchDecode
    \/ DaecReceive(RawWord(SecDaec_TOTAL_BITS))
    \/ \E b \in 0..(SecDaec_TOTAL_BITS - 1) : DaecFlip(b)
    \/ DaecDecode

-----------------------------------------------------------------------------
(* Repeated decoding on the same codec instances: the caller hands a word to
   one of the decoders, takes the result, and goes on with the next word,
   which may be one it has decoded before. *)

\* the words decoded repeatedly: per codec a codeword as encoded and with
\* one, two or three bits flipped; for SecDaec64 the words of ThrWords, which
\* reach the adjacency table
RepeatWords ==
    [c \in {"Hamming", "BCH63", "SecDaec64"} |->
        IF c = "Hamming"
        THEN [w \in Widths |->
                 {SymDiff(Hamming_encode(w, HexWord(<<1,2,3,4,5,6,7,8>>)), F) :
                     F \in {{}, {2}, {2, 5}}}]
        ELSE IF c = "BCH63"
        THEN {SymDiff(BCH63_encode(makeMessage(k_)), F) : F \in {{}, {7}, {7, 40}}}
        ELSE ThrWords]

\* the caller is done with the result of the last decode
Release ==
    /\ "decoded" \in {hpc, bpc, dpc}
    /\ hpc' = "idle" /\ bpc' = "idle" /\ dpc' = "idle"
    /\ UNCHANGED <<simVars, satVars, legVars, thrVars, calls, hw, pcm, hdata, hcw, hflips, hres,
                   bmsg, bcw, bclean, bflips, bres,
                   ddata, dcw, dflips, dres, table_init, table, secdaec_energy_csv>>

RepeatNext ==
    \/ \E r \in RepeatWords["Hamming"][hw] : HamReceive(r)
    \/ HamDecode
    \/ \E r \in RepeatWords["BCH63"] : BchReceive(r)
    \/ BchDecode
    \/ \E r \in RepeatWords["SecDaec64"] : DaecReceive(r)
    \/ DaecDecode
    \/ Release

\* encode, decode, resetPCM and loadPCMFromFile in any order on a few words
HamPcmNext ==
    \/ \E r \in RepeatWords["Hamming"][hw]
                 \cup {SymDiff(RawWord(TOTAL_BITS(hw)), {i}) : i \in 0..7} : HamReceive(r)
    \/ HamEncode(HexWord(<<1,2,3,4,5,6,7,8>>))
    \/ HamDecode
    \/ resetPCM
    \/ \E f \in PcmFiles(hw) : loadPCMFromFile(f)

-----------------------------------------------------------------------------
(* The bit containers on their own: detail::CodeWordStorage<Bits> (positions
   1..Bits), BCH63::Codeword (0..N-1), BitVector (0..127) and the CodeWord of
   the legacy 32-bit HammingCodeSECDED (positions 1..39 in a uint64_t).  Each
   container starts empty and receives set and flip calls at positions inside
   and outside its range; cref follows the calls at positions inside. *)

LegInit ==
    /\ ldata = {}
    /\ cref = [c \in {"storage", "codeword", "bitvector", "legacy"} |-> {}]

BCHCodewordSetBit(cw, pos, value) ==
    IF pos < 0 \/ pos >= N THEN cw
    ELSE IF value THEN cw \cup {pos} ELSE cw \ {pos}

\* The legacy CodeWord shifts by pos - 1 without a test.  A shift count in
\* 0..63 is defined; any other count is undefined behaviour, which the
\* builds resolve by taking the count mod 64 or by dropping the operation.
LegacyShifts(pos) ==
    IF pos - 1 \in 0..63 THEN {{pos - 1}}
    ELSE {{(pos - 1) % 64}, {}}

\* getBit: (data >> (pos - 1)) & 1
LegacyGetBit(data, pos) == {sh \cap data # {} : sh \in LegacyShifts(pos)}

\* setBit: data |= (1ULL << (pos - 1)) or data &= ~(1ULL << (pos - 1))
LegacySetBit(data, pos, value) ==
    {IF value THEN data \cup sh ELSE data \ sh : sh \in LegacyShifts(pos)}

\* flipBit: data ^= (1ULL << (pos - 1))
LegacyFlipBit(data, pos) == {SymDiff(data, sh) : sh \in LegacyShifts(pos)}

\* the positions handed to a container whose valid range is lo..hi
ProbePositions(lo, hi) == {lo - 2, lo - 1, lo, lo + 1, lo + 2, hi, hi + 1, hi + 2, hi + 26}

StorageOp(op, pos, value) ==
    /\ bcw = {} /\ dcw = {} /\ ldata = {}
    /\ hcw' = IF op = "set" THEN setBit(hcw, TOTAL_BITS(hw), pos, value)
              ELSE flipBit(hcw, TOTAL_BITS(hw), pos)
    /\ cref' = [cref EXCEPT !.storage =
                   IF pos \notin 1..TOTAL_BITS(hw) THEN @
                   ELSE IF op = "flip" THEN SymDiff(@, {pos - 1})
                   ELSE IF value THEN @ \cup {pos - 1} ELSE @ \ {pos - 1}]
    /\ UNCHANGED <<simVars, satVars, ldata, thrVars, calls, hw, pcm, hdata, hflips, hres, hpc, bchVars, daecVars>>

CodewordOp(op, pos, value) ==
    /\ hcw = {} /\ dcw = {} /\ ldata = {} /\ hw = 32
    /\ bcw' = IF op = "set" THEN BCHCodewordSetBit(bcw, pos, value)
              ELSE CodewordFlipBit(bcw, pos)
    /\ cref' = [cref EXCEPT !.codeword =
                   IF pos \notin 0..(N - 1) THEN @
                   ELSE IF op = "flip" THEN SymDiff(@, {pos})
                   ELSE IF value THEN @ \cup {pos} ELSE @ \ {pos}]
    /\ UNCHANGED <<simVars, satVars, ldata, thrVars, calls, hamVars, bmsg, bclean, bflips, bres, bpc, daecVars>>

\* An int handed to a std::size_t parameter: a negative value wraps to
\* 2^64 + pos, far beyond every container; 2^30 + pos stands for it here.
ToSizeT(pos) == IF pos < 0 THEN 2^30 + pos ELSE pos

\* BitVector has get and set only
BitVectorOp(pos, value) ==
    /\ hcw = {} /\ bcw = {} /\ ldata = {} /\ hw = 32
    /\ dcw' = BitVectorSet(dcw, ToSizeT(pos), value)
    /\ cref' = [cref EXCEPT !.bitvector =
                   IF pos \notin 0..127 THEN @
                   ELSE IF value THEN @ \cup {pos} ELSE @ \ {pos}]
    /\ UNCHANGED <<simVars, satVars, ldata, thrVars, calls, hamVars, bchVars, ddata, dflips, dres, dpc,
                   table_init, table, secdaec_energy_csv>>

LegacyOp(op, pos, value) ==
    /\ hcw = {} /\ bcw = {} /\ dcw = {} /\ hw = 32
    /\ ldata' \in IF op = "set" THEN LegacySetBit(ldata, pos, value)
                  ELSE LegacyFlipBit(ldata, pos)
    /\ cref' = [cref EXCEPT !.legacy =
                   IF pos \notin 1..TOTAL_BITS(32) THEN @
                   ELSE IF op = "flip" THEN SymDiff(@, {pos - 1})
                   ELSE IF value THEN @ \cup {pos - 1} ELSE @ \ {pos - 1}]
    /\ UNCHANGED <<simVars, satVars, thrVars, calls, hamVars, bchVars, daecVars>>

ContainerNext ==
    \E op \in {"set", "flip"}, value \in BOOLEAN :
        \/ \E pos \in ProbePositions(1, TOTAL_BITS(hw)) : StorageOp(op, pos, value)
        \/ \E pos \in ProbePositions(0, N - 1) : CodewordOp(op, pos, value)
        \/ \E pos \in ProbePositions(0, 127) : BitVectorOp(pos, value)
        \/ \E pos \in ProbePositions(1, TOTAL_BITS(32)) : LegacyOp(op, pos, value)

-----------------------------------------------------------------------------
(* encode called with data wider than the code's data width.  The Hamming
   and SecDaec64 encoders take an unsigned integer and read its bits
   0 .. DATA_BITS-1; BCH63::encode takes a bit vector and tests its size. *)

\* the test of BCH63::encode with only the too-short vectors rejected
BCH63_encode_throws_onlyShort(data_bits) == Len(data_bits) < k_

\* if (static_cast<int>(data_bits.size()) != k_) throw std::invalid_argument
BCH63_encode_throws(data_bits) == Len(data_bits) # k_

\* the low w bits of a value
LowBits(value, w) == value \cap (0..(w - 1))

\* values with up to four bits set above the data width
WideValues(words, w) == {d \cup e : d \in words, e \in SUBSET {w, w + 1, w + 5, w + 31}}

\* bit vectors of 49 .. 53 bits
BchVectors ==
    {SubSeq(m, 1, k_ - cut) : m \in BchMessages, cut \in 0..2}
    \cup {m \o tail : m \in BchMessages, tail \in {<<TRUE>>, <<FALSE>>, <<TRUE, FALSE>>}}

WideHamEncode(v) ==
    /\ hpc = "idle" /\ bpc = "idle" /\ dpc = "idle"
    /\ hdata' = v
    /\ hcw' = Hamming_encode(hw, v)
    /\ hflips' = {}
    /\ hpc' = "encoded"
    /\ UNCHANGED <<simVars, satVars, legVars, thrVars, calls, hw, pcm, hres, bchVars, daecVars>>

WideDaecEncode(v) ==
    /\ hpc = "idle" /\ bpc = "idle" /\ dpc = "idle"
    /\ ddata' = v
    /\ dcw' = SecDaec64_encode(v)
    /\ dflips' = {}
    /\ dpc' = "encoded"
    /\ UNCHANGED <<simVars, satVars, legVars, thrVars, calls, dres, table_init, table, secdaec_energy_csv, hamVars, bchVars>>

\* BCH63::encode(data_bits): the exception leaves the caller without a codeword
BchEncodeCall(m) ==
    /\ hpc = "idle" /\ bpc = "idle" /\ dpc = "idle"
    /\ bmsg' = m
    /\ IF BCH63_encode_throws(m)
       THEN /\ bpc' = "rejected"
            /\ UNCHANGED <<bcw, bclean>>
       ELSE /\ bpc' = "encoded"
            /\ bcw' = BCH63_encode(m)
            /\ bclean' = bcw'
    /\ bflips' = {}
    /\ UNCHANGED <<simVars, satVars, legVars, thrVars, calls, bres, hamVars, daecVars>>

\* the caller drops the codeword (or catches the exception) and starts over
EncodeRelease ==
    /\ {hpc, bpc, dpc} # {"idle"}
    /\ hpc' = "idle" /\ bpc' = "idle" /\ dpc' = "idle"
    /\ hdata' = {} /\ hcw' = {}
    /\ bmsg' = <<>> /\ bcw' = {} /\ bclean' = {}
    /\ ddata' = {} /\ dcw' = {}
    /\ UNCHANGED <<simVars, satVars, legVars, thrVars, calls, hw, pcm, hflips, hres, bflips, bres,
                   dflips, dres, table_init, table, secdaec_energy_csv>>

EncodeWideNext ==
    \/ \E v \in WideValues(HamData(hw), DATA_BITS(hw)) : WideHamEncode(v)
    \/ \E v \in WideValues(DaecData, SecDaec_DATA_BITS) : WideDaecEncode(v)
    \/ \E m \in BchVectors : BchEncodeCall(m)
    \/ EncodeRelease

-----------------------------------------------------------------------------
(* AdvancedMemorySimulator<Hamming32WordTraits, Hamming32Workload> and its
   ECCStatistics.  The simulator is single-threaded: one call at a time.
   memory_ is a map from the addresses written so far to their codewords. *)

memory_size_words == 268435456

\* the range of int, the type of bit_position, start_position, burst_length
INT_MAX == 2147483647

INT_MIN == -INT_MAX - 1

\* most simulator calls in one run
MaxOps == 3

\* most simulator calls in one run of write followed by inject/read rounds
MaxScrubOps == 7

CounterNames ==
    {"total_writes", "total_reads", "no_errors", "single_errors_corrected",
     "double_errors_detected", "multiple_errors_uncorrectable",
     "overall_parity_errors", "data_corruption_prevented"}

ECCStatistics_reset == [c \in CounterNames |-> 0]

recordWrite(c) == [c EXCEPT !["total_writes"] = @ + 1]

\* recordRead without the data_corruption_prevented++ of the double-error case
recordRead_doubleNotPrevented(c, result) ==
    LET bumped ==
            {"total_reads"} \cup
            (CASE result.error_type = "NO_ERROR" -> {"no_errors"}
               [] result.error_type = "SINGLE_ERROR_CORRECTABLE" ->
                      {"single_errors_corrected", "data_corruption_prevented"}
               [] result.error_type = "DOUBLE_ERROR_DETECTABLE" ->
                      {"double_errors_detected"}
               [] result.error_type = "MULTIPLE_ERROR_UNCORRECTABLE" ->
                      {"multiple_errors_uncorrectable"}
               [] result.error_type = "OVERALL_PARITY_ERROR" ->
                      {"overall_parity_errors", "data_corruption_prevented"}
               [] OTHER -> {})
    IN  [n \in CounterNames |-> IF n \in bumped THEN c[n] + 1 ELSE c[n]]

recordRead(c, result) ==
    LET bumped ==
            {"total_reads"} \cup
            (CASE result.error_type = "NO_ERROR" -> {"no_errors"}
               [] result.error_type = "SINGLE_ERROR_CORRECTABLE" ->
                      {"single_errors_corrected", "data_corruption_prevented"}
               [] result.error_type = "DOUBLE_ERROR_DETECTABLE" ->
                      {"double_errors_detected", "data_corruption_prevented"}
               [] result.error_type = "MULTIPLE_ERROR_UNCORRECTABLE" ->
                      {"multiple_errors_uncorrectable"}
               [] result.error_type = "OVERALL_PARITY_ERROR" ->
                      {"overall_parity_errors", "data_corruption_prevented"}
               [] OTHER -> {})
    IN  [n \in CounterNames |-> IF n \in bumped THEN c[n] + 1 ELSE c[n]]

\* a + b on int overflows
IntOverflows(a, b) == (b > 0 /\ a > INT_MAX - b) \/ (b < 0 /\ a < INT_MIN - b)

\* a + b on int with two's-complement wrap-around
IntAddWrap(a, b) ==
    IF b > 0 /\ a > INT_MAX - b THEN INT_MIN + ((a - (INT_MAX - b)) - 1)
    ELSE IF b < 0 /\ a < INT_MIN - b THEN INT_MAX - (((INT_MIN - b) - a) - 1)
    ELSE a + b

\* start_position < 1 || start_position + burst_length - 1 > TOTAL_BITS.  The
\* sum is a signed int: when it overflows the behaviour is undefined, and a
\* build either wraps around or evaluates the comparison as on the integers
BurstRejected(w, start_position, burst_length) ==
    IF start_position < 1 THEN {TRUE}
    ELSE IF IntOverflows(start_position, burst_length)
         THEN {IntAddWrap(IntAddWrap(start_position, burst_length), -1) > TOTAL_BITS(w),
               burst_length > 0}
         ELSE {start_position + burst_length - 1 > TOTAL_BITS(w)}

\* for (i = 0; i < burst_length; ++i) it->second.flipBit(start_position + i):
\* flipBit ignores the positions beyond TOTAL_BITS
BurstFlips(w, cw, start_position, burst_length) ==
    SymDiff(cw, {pos - 1 : pos \in {q \in 1..TOTAL_BITS(w) :
                                      q >= start_position /\ q - start_position < burst_length}})

NoCall == [op |-> "none", address |-> 0, a1 |-> 0, a2 |-> 0, threw |-> FALSE,
           result |-> NoResult]

SimCall(op, address, a1, a2, threw, result) ==
    [op |-> op, address |-> address, a1 |-> a1, a2 |-> a2, threw |-> threw,
     result |-> result]

RndIdle == [pc |-> "idle", address |-> 0, num_errors |-> 0, i |-> 0, used |-> {}]

SimInit ==
    /\ memory = [a \in {} |-> {}]
    /\ counters = ECCStatistics_reset
    /\ sim = NoCall
    /\ ghost = [ops |-> 0, reads |-> 0, writes |-> 0, writes_ever |-> 0,
                written |-> [a \in {} |-> {}]]
    /\ rnd = RndIdle

\* memory_[address] = cw
Store(map, address, cw) ==
    [a \in DOMAIN map \cup {address} |-> IF a = address THEN cw ELSE map[a]]

\* a call that throws before it touched anything
Throws(op, address, a1, a2) ==
    /\ sim' = SimCall(op, address, a1, a2, TRUE, NoResult)
    /\ ghost' = [ghost EXCEPT !.ops = @ + 1]
    /\ UNCHANGED <<memory, counters, rnd>>

write(address, data) ==
    /\ rnd.pc = "idle"
    /\ IF address >= memory_size_words
       THEN Throws("write", address, 0, 0)
       ELSE /\ memory' = Store(memory, address, Hamming_encode(hw, data))
            /\ counters' = recordWrite(counters)
            /\ sim' = SimCall("write", address, 0, 0, FALSE, NoResult)
            /\ ghost' = [ghost EXCEPT !.ops = @ + 1, !.writes = @ + 1,
                                      !.writes_ever = @ + 1,
                                      !.written = Store(@, address, data)]
            /\ UNCHANGED rnd
    /\ UNCHANGED <<satVars, legVars, thrVars, calls, hamVars, bchVars, daecVars>>

\* read that returns the corrected data but leaves the stored codeword alone
read_withoutScrub(address) ==
    /\ rnd.pc = "idle"
    /\ IF address \notin DOMAIN memory
       THEN Throws("read", address, 0, 0)
       ELSE LET result == Hamming_decode(hw, pcm, memory[address])
            IN  /\ counters' = recordRead(counters, result)
                /\ sim' = SimCall("read", address, 0, 0, FALSE, result)
                /\ ghost' = [ghost EXCEPT !.ops = @ + 1, !.reads = @ + 1]
                /\ UNCHANGED <<memory, rnd>>
    /\ UNCHANGED <<satVars, legVars, thrVars, calls, hamVars, bchVars, daecVars>>

read(address) ==
    /\ rnd.pc = "idle"
    /\ IF address \notin DOMAIN memory
       THEN Throws("read", address, 0, 0)
       ELSE LET result == Hamming_decode(hw, pcm, memory[address])
            IN  /\ memory' = IF result.data_corrected
                             THEN Store(memory, address,
                                        Hamming_encode(hw, result.corrected_data))
                             ELSE memory
                /\ counters' = recordRead(counters, result)
                /\ sim' = SimCall("read", address, 0, 0, FALSE, result)
                /\ ghost' = [ghost EXCEPT !.ops = @ + 1, !.reads = @ + 1]
                /\ UNCHANGED rnd
    /\ UNCHANGED <<satVars, legVars, thrVars, calls, hamVars, bchVars, daecVars>>

injectError(address, bit_position) ==
    /\ rnd.pc = "idle"
    /\ IF address \notin DOMAIN memory
          \/ bit_position < 1 \/ bit_position > TOTAL_BITS(hw)
       THEN Throws("injectError", address, bit_position, 0)
       ELSE /\ memory' = Store(memory, address,
                               flipBit(memory[address], TOTAL_BITS(hw), bit_position))
            /\ sim' = SimCall("injectError", address, bit_position, 0, FALSE, NoResult)
            /\ ghost' = [ghost EXCEPT !.ops = @ + 1]
            /\ UNCHANGED <<counters, rnd>>
    /\ UNCHANGED <<satVars, legVars, thrVars, calls, hamVars, bchVars, daecVars>>

injectBurstError(address, start_position, burst_length) ==
    /\ rnd.pc = "idle"
    /\ IF address \notin DOMAIN memory
       THEN Throws("injectBurstError", address, start_position, burst_length)
       ELSE \E rejected \in BurstRejected(hw, start_position, burst_length) :
               IF rejected
               THEN Throws("injectBurstError", address, start_position, burst_length)
               ELSE /\ memory' = Store(memory, address,
                                       BurstFlips(hw, memory[address],
                                                  start_position, burst_length))
                    /\ sim' = SimCall("injectBurstError", address, start_position,
                                      burst_length, FALSE, NoResult)
                    /\ ghost' = [ghost EXCEPT !.ops = @ + 1]
                    /\ UNCHANGED <<counters, rnd>>
    /\ UNCHANGED <<satVars, legVars, thrVars, calls, hamVars, bchVars, daecVars>>

\* injectRandomErrors up to its loop: the lookup of the address
injectRandomErrors(address, num_errors) ==
    /\ rnd.pc = "idle"
    /\ IF address \notin DOMAIN memory
       THEN Throws("injectRandomErrors", address, num_errors, 0)
       ELSE /\ rnd' = [pc |-> "loop", address |-> address, num_errors |-> num_errors,
                       i |-> 0, used |-> {}]
            /\ sim' = SimCall("injectRandomErrors", address, num_errors, 0, FALSE,
                              NoResult)
            /\ ghost' = [ghost EXCEPT !.ops = @ + 1]
            /\ UNCHANGED <<memory, counters>>
    /\ UNCHANGED <<satVars, legVars, thrVars, calls, hamVars, bchVars, daecVars>>

\* one turn of the do-while: bit_pos = bit_dist(rng_); a position already in
\* used_positions is drawn again, a new one is flipped and ends iteration i
injectRandomErrors_draw(bit_pos) ==
    /\ rnd.pc = "loop"
    /\ rnd.i < rnd.num_errors
    /\ bit_pos \in 1..TOTAL_BITS(hw)
    /\ IF bit_pos \in rnd.used
       THEN UNCHANGED <<memory, rnd>>
       ELSE /\ rnd' = [rnd EXCEPT !.used = @ \cup {bit_pos}, !.i = @ + 1]
            /\ memory' = Store(memory, rnd.address,
                               flipBit(memory[rnd.address], TOTAL_BITS(hw), bit_pos))
    /\ UNCHANGED <<counters, sim, ghost>>
    /\ UNCHANGED <<satVars, legVars, thrVars, calls, hamVars, bchVars, daecVars>>

\* i == num_errors: the for loop ends and injectRandomErrors returns
injectRandomErrors_return ==
    /\ rnd.pc = "loop"
    /\ rnd.i >= rnd.num_errors
    /\ rnd' = [rnd EXCEPT !.pc = "idle"]
    /\ UNCHANGED <<memory, counters, sim, ghost>>
    /\ UNCHANGED <<satVars, legVars, thrVars, calls, hamVars, bchVars, daecVars>>

resetStatistics ==
    /\ rnd.pc = "idle"
    /\ counters' = ECCStatistics_reset
    /\ sim' = SimCall("resetStatistics", 0, 0, 0, FALSE, NoResult)
    /\ ghost' = [ghost EXCEPT !.ops = @ + 1, !.reads = 0, !.writes = 0]
    /\ UNCHANGED <<memory, rnd>>
    /\ UNCHANGED <<satVars, legVars, thrVars, calls, hamVars, bchVars, daecVars>>

\* the address the tests write, a second one never written, and the first
\* address beyond the memory
WrittenAddress == 7

UnwrittenAddress == 9

\* bit positions around the ends of [1, TOTAL_BITS]
BitProbes(w) == {-1, 0, 1, 5, TOTAL_BITS(w), TOTAL_BITS(w) + 1}

\* (start_position, burst_length) pairs: inside the codeword, across its end,
\* before its start, and bursts too long for int arithmetic
BurstProbes(w) ==
    {<<1, 2>>, <<TOTAL_BITS(w) - 1, 3>>, <<0, 2>>, <<1, INT_MAX>>, <<2, INT_MAX>>}

MemNext ==
    \/ \E address \in {WrittenAddress, memory_size_words}, data \in HamData(hw) :
          ghost.ops < MaxOps /\ write(address, data)
    \/ \E address \in {WrittenAddress, UnwrittenAddress} :
          ghost.ops < MaxOps /\ read(address)
    \/ \E address \in {WrittenAddress, UnwrittenAddress}, p \in BitProbes(hw) :
          ghost.ops < MaxOps /\ injectError(address, p)
    \/ \E address \in {WrittenAddress, UnwrittenAddress}, b \in BurstProbes(hw) :
          ghost.ops < MaxOps /\ injectBurstError(address, b[1], b[2])
    \/ \E address \in {WrittenAddress, UnwrittenAddress}, n \in 0..2 :
          ghost.ops < MaxOps /\ injectRandomErrors(address, n)
    \/ ghost.ops < MaxOps /\ resetStatistics
    \/ \E bit_pos \in BitProbes(hw) : injectRandomErrors_draw(bit_pos)
    \/ injectRandomErrors_return

\* what the generator may return next: the lowest and the highest position
\* not drawn yet, and one drawn before
RngDraws(w, used) ==
    LET fresh == (1..TOTAL_BITS(w)) \ used
    IN  {p \in fresh : \A q \in fresh : p <= q}
        \cup {p \in fresh : \A q \in fresh : p >= q}
        \cup {p \in used : \A q \in used : p <= q}

\* num_errors: none, a few, every position, one more than there are positions
RandomCounts(w) == {0, 1, 2, 3, TOTAL_BITS(w), TOTAL_BITS(w) + 1}

\* write(7, d) followed by one injectRandomErrors(7, num_errors)
InjectRandomNext ==
    \/ \E data \in HamData(hw) : ghost.ops = 0 /\ write(WrittenAddress, data)
    \/ \E n \in RandomCounts(hw) : ghost.ops = 1 /\ injectRandomErrors(WrittenAddress, n)
    \/ \E bit_pos \in RngDraws(hw, rnd.used) : injectRandomErrors_draw(bit_pos)
    \/ injectRandomErrors_return

-----------------------------------------------------------------------------
(* Hamming32Workload::known_vectors and AdvancedTestSuite::testKnownVectors:
   rawWords()[0] of a codeword has position p at bit p - 1. *)

known_vectors ==
    <<[data |-> {}, encoded |-> {}],
      [data |-> HexWord(<<15, 15, 15, 15, 15, 15, 15, 15>>),
       encoded |-> HexWord(<<3, 15, 7, 15, 15, 15, 15, 15, 15, 4>>)],
      [data |-> HexWord(<<1, 2, 3, 4, 5, 6, 7, 8>>),
       encoded |-> HexWord(<<4, 4, 12, 6, 8, 10, 6, 7, 12, 9>>)]>>

\* the known vectors are encoded, possibly corrupted, and decoded
KnownVectorsNext ==
    \/ \E k \in 1..Len(known_vectors) : HamEncode(known_vectors[k].data)
    \/ \E p \in 1..TOTAL_BITS(hw) : HamFlip(p)
    \/ HamDecode

\* write(7, d), then rounds of one injectError(7, p) and one read(7)
ScrubNext ==
    \/ \E data \in HamData(hw) : ghost.ops = 0 /\ write(WrittenAddress, data)
    \/ \E p \in 1..TOTAL_BITS(hw) :
          /\ ghost.ops < MaxScrubOps
          /\ sim.op \in {"write", "read"}
          /\ injectError(WrittenAddress, p)
    \/ /\ ghost.ops < MaxScrubOps
       /\ sim.op = "injectError"
       /\ read(WrittenAddress)

-----------------------------------------------------------------------------
(* SATSolver (src/SAT.cpp).  A literal is a non-zero integer, a clause a
   record of its literals and its satisfied flag.  The recursion of dpll is
   kept as the sequence of its activations that wait for a recursive call. *)

SatInit ==
    /\ clauses = <<>>
    /\ assignment = [v \in {} |-> FALSE]
    /\ decision_stack = <<>>
    /\ activity = [v \in {} |-> 0]
    /\ conflicts = 0
    /\ frames = <<>>
    /\ sat_pc = "building"
    /\ sat_ret = FALSE

\* SATSolver::variables
variables(cls) ==
    UNION {{Abs(cls[k].literals[i]) : i \in 1..Len(cls[k].literals)} : k \in 1..Len(cls)}

isLiteralTrue(asg, literal) ==
    IF Abs(literal) \notin DOMAIN asg THEN FALSE
    ELSE IF literal > 0 THEN asg[Abs(literal)] ELSE ~asg[Abs(literal)]

isLiteralFalse(asg, literal) ==
    IF Abs(literal) \notin DOMAIN asg THEN FALSE
    ELSE IF literal > 0 THEN ~asg[Abs(literal)] ELSE asg[Abs(literal)]

\* assignment[var] = value
Assign(asg, var, value) ==
    [v \in DOMAIN asg \cup {var} |-> IF v = var THEN value ELSE asg[v]]

\* assignment.erase(var)
Erase(asg, var) == [v \in DOMAIN asg \ {var} |-> asg[v]]

\* updateVariableActivity(abs(lit)) for every literal of a clause
BumpActivities(act, literals) ==
    [v \in DOMAIN act |->
        act[v] + Cardinality({i \in 1..Len(literals) : Abs(literals[i]) = v})]

\* one pass of the for loop of unitPropagate over the clauses k, k+1, ...
RECURSIVE PropagatePass(_, _)
PropagatePass(st, k) ==
    IF k > Len(st.clauses) THEN st
    ELSE LET clause == st.clauses[k]
             lits == clause.literals
             clauseSat == \E i \in 1..Len(lits) : isLiteralTrue(st.assignment, lits[i])
             unassigned == SelectSeq(lits, LAMBDA l : /\ ~isLiteralTrue(st.assignment, l)
                                                      /\ ~isLiteralFalse(st.assignment, l))
         IN  IF clause.satisfied THEN PropagatePass(st, k + 1)
             ELSE IF clauseSat
                  THEN PropagatePass(
                           [st EXCEPT !.clauses[k].satisfied = TRUE], k + 1)
             ELSE IF unassigned = <<>>
                  THEN [st EXCEPT !.ok = FALSE,
                                  !.activity = BumpActivities(@, lits),
                                  !.conflicts = @ + 1]
             ELSE IF Len(unassigned) = 1
                  THEN PropagatePass(
                           [st EXCEPT !.assignment = Assign(@, Abs(unassigned[1]),
                                                            unassigned[1] > 0),
                                      !.changed = TRUE], k + 1)
             ELSE PropagatePass(st, k + 1)

\* while (changed) { changed = false; for (auto& clause : clauses) ... }
RECURSIVE unitPropagate(_)
unitPropagate(st) ==
    LET after == PropagatePass([st EXCEPT !.changed = FALSE], 1)
    IN  IF after.ok /\ after.changed THEN unitPropagate(after) ELSE after

allClausesSatisfied(cls, asg) ==
    \A k \in 1..Len(cls) :
        \E i \in 1..Len(cls[k].literals) : isLiteralTrue(asg, cls[k].literals[i])

\* var_info[var].pos_occurrences + var_info[var].neg_occurrences
Occurrences(cls, var) ==
    Cardinality({ki \in UNION {{<<k, i>> : i \in 1..Len(cls[k].literals)} :
                                   k \in 1..Len(cls)} :
                    Abs(cls[ki[1]].literals[ki[2]]) = var})

\* activity + 0.1 * pos_occurrences + 0.1 * neg_occurrences, in tenths
Score(cls, act, var) == 10 * act[var] + Occurrences(cls, var)

\* chooseVariable: the unassigned variable of greatest score that the
\* iteration over the unordered_set meets first; the iteration order is
\* unspecified, so any variable of greatest score.  The empty set stands for -1
chooseVariable(cls, asg, act) ==
    LET free == variables(cls) \ DOMAIN asg
    IN  {v \in free : \A u \in free : Score(cls, act, u) <= Score(cls, act, v)}

\* the clauses handed to addClause, each at most once: over x1, x2 the four
\* two-literal clauses, of which every three are satisfiable and all four are
\* not, and two clauses with a third variable
ClausePool ==
    {<<-1, 2>>, <<-1, -2>>, <<1, -2>>, <<1, 2>>, <<1, 3>>, <<-3>>}

addClause(literals) ==
    /\ sat_pc = "building"
    /\ \A k \in 1..Len(clauses) : clauses[k].literals # literals
    /\ clauses' = Append(clauses, [literals |-> literals, satisfied |-> FALSE])
    /\ activity' = [v \in DOMAIN activity \cup variables(clauses') |->
                       IF v \in DOMAIN activity THEN activity[v] ELSE 0]
    /\ UNCHANGED <<assignment, decision_stack, conflicts, frames, sat_pc, sat_ret>>
    /\ UNCHANGED <<simVars, legVars, thrVars, calls, hamVars, bchVars, daecVars>>

\* solve() up to its call of dpll()
solve ==
    /\ sat_pc = "building"
    /\ assignment' = [v \in {} |-> FALSE]
    /\ decision_stack' = <<>>
    /\ clauses' = [k \in 1..Len(clauses) |-> [clauses[k] EXCEPT !.satisfied = FALSE]]
    /\ frames' = <<>>
    /\ sat_pc' = "call"
    /\ UNCHANGED <<activity, conflicts, sat_ret>>
    /\ UNCHANGED <<simVars, legVars, thrVars, calls, hamVars, bchVars, daecVars>>

\* dpll() from its entry to its first recursive call or to its return
dpll ==
    /\ sat_pc = "call"
    /\ LET st == unitPropagate([clauses |-> clauses, assignment |-> assignment,
                                activity |-> activity, conflicts |-> conflicts,
                                ok |-> TRUE, changed |-> FALSE])
           candidates == chooseVariable(st.clauses, st.assignment, st.activity)
       IN  /\ clauses' = st.clauses
           /\ activity' = st.activity
           /\ conflicts' = st.conflicts
           /\ IF ~st.ok
              THEN /\ sat_pc' = "return" /\ sat_ret' = FALSE
                   /\ assignment' = st.assignment
                   /\ UNCHANGED <<decision_stack, frames>>
              ELSE IF allClausesSatisfied(st.clauses, st.assignment)
                      \/ candidates = {}
              THEN /\ sat_pc' = "return"
                   /\ sat_ret' = allClausesSatisfied(st.clauses, st.assignment)
                   /\ assignment' = st.assignment
                   /\ UNCHANGED <<decision_stack, frames>>
              ELSE \E var \in candidates :
                      /\ assignment' = Assign(st.assignment, var, TRUE)
                      /\ decision_stack' = Append(decision_stack, var)
                      /\ frames' = Append(frames, [var |-> var, tried |-> "true"])
                      /\ sat_pc' = "call"
                      /\ UNCHANGED sat_ret
    /\ UNCHANGED <<simVars, legVars, thrVars, calls, hamVars, bchVars, daecVars>>

\* a recursive dpll() returned to the activation that called it, or the
\* outermost one returned to solve()
dpll_return ==
    /\ sat_pc = "return"
    /\ IF frames = <<>>
       THEN /\ sat_pc' = "done"
            /\ UNCHANGED <<assignment, decision_stack, frames, sat_ret>>
       ELSE LET top == frames[Len(frames)]
                rest == SubSeq(frames, 1, Len(frames) - 1)
            IN  IF sat_ret
                THEN /\ frames' = rest
                     /\ UNCHANGED <<assignment, decision_stack, sat_pc, sat_ret>>
                ELSE IF top.tried = "true"
                THEN /\ assignment' = Assign(assignment, top.var, FALSE)
                     /\ frames' = Append(rest, [top EXCEPT !.tried = "false"])
                     /\ sat_pc' = "call"
                     /\ UNCHANGED <<decision_stack, sat_ret>>
                ELSE /\ assignment' = Erase(assignment, top.var)
                     /\ decision_stack' = SubSeq(decision_stack, 1,
                                                 Len(decision_stack) - 1)
                     /\ frames' = rest
                     /\ UNCHANGED <<sat_pc, sat_ret>>
    /\ UNCHANGED <<clauses, activity, conflicts>>
    /\ UNCHANGED <<simVars, legVars, thrVars, calls, hamVars, bchVars, daecVars>>

SatNext ==
    \/ \E literals \in ClausePool : addClause(literals)
    \/ solve
    \/ dpll
    \/ dpll_return

\* some assignment of the variables makes a literal of every clause true
Satisfiable(cls) ==
    \E trueVars \in SUBSET variables(cls) :
        allClausesSatisfied(cls, [v \in variables(cls) |-> v \in trueVars])

-----------------------------------------------------------------------------
(* Specifications: one codec under test at a time, the others idle. *)

InitHamming == HamInit /\ BchInit /\ DaecInit /\ ThrInit /\ calls = <<>> /\ LegInit /\ SimInit /\ SatInit

InitBCH == HamInit /\ hw = 32 /\ BchInit /\ DaecInit /\ ThrInit /\ calls = <<>> /\ LegInit /\ SimInit /\ SatInit

InitSecDaec == HamInit /\ hw = 32 /\ BchInit /\ DaecInit /\ ThrInit /\ calls = <<>> /\ LegInit /\ SimInit /\ SatInit

SpecHamming == InitHamming /\ [][HamNext]_vars

SpecHammingMulti == InitHamming /\ [][HamMultiNext]_vars

SpecBCH == InitBCH /\ [][BchNext]_vars

SpecSecDaec == InitSecDaec /\ [][DaecNext]_vars

SpecBCHEncode == InitBCH /\ [][BchEncodeNext]_vars

SpecSecDaecThreads == InitSecDaec /\ [][ThrNext]_vars

InitRaw == HamInit /\ BchInit /\ DaecInit /\ ThrInit /\ calls = <<>> /\ LegInit /\ SimInit /\ SatInit

SpecRaw == InitRaw /\ [][RawNext]_vars

SpecContainers == InitRaw /\ [][ContainerNext]_vars

SpecHammingPcm == InitRaw /\ [][HamPcmNext]_vars

SpecRepeat == InitRaw /\ [][RepeatNext]_vars

SpecEncodeWide == InitRaw /\ [][EncodeWideNext]_vars

InitMemory == InitRaw /\ hw = 32

SpecMemory == InitMemory /\ [][MemNext]_vars

SpecInjectRandom == InitMemory /\ [][InjectRandomNext]_vars

SpecKnownVectors == InitMemory /\ [][KnownVectorsNext]_vars

SpecScrub == InitRaw /\ [][ScrubNext]_vars

SpecSat == InitMemory /\ [][SatNext]_vars

-----------------------------------------------------------------------------
(* Properties of the Hamming SEC-DED codec, checked under SpecHamming: every
   data word of HamData, both widths, every set of at most MaxFlips flipped
   positions.  The parity-check matrix is the default one throughout (no
   loadParityCheckMatrix). *)

\* C1: round trip.  For every data word d of the configured width,
\* decode(encode(d)) returns corrected_data = d with classification NO_ERROR
\* and no correction applied.
C1_HammingRoundTrip ==
    (hpc = "decoded" /\ hflips = {}) =>
        /\ hres.error_type = "NO_ERROR"
        /\ hres.corrected_data = hdata
        /\ ~hres.data_corrected

\* a 64-bit non-zero word decoded unchanged from its clean codeword
C1_Witness ==
    /\ hpc = "decoded" /\ hflips = {} /\ hw = 64
    /\ hdata # {} /\ hres.corrected_data = hdata /\ hres.error_type = "NO_ERROR"

\* C2 (as stated): for every d and every codeword position p, decoding
\* encode(d) with bit p flipped returns corrected_data = d with the
\* single-error-corrected classification.
C2_AsStated ==
    (hpc = "decoded" /\ Cardinality(hflips) = 1) =>
        /\ hres.corrected_data = hdata
        /\ hres.error_type = "SINGLE_ERROR_CORRECTABLE"

\* C2 (amended): for every d and every codeword position p, decoding encode(d)
\* with bit p flipped returns corrected_data = d with a correction applied;
\* the classification is SINGLE_ERROR_CORRECTABLE with error_position = p for
\* p in 1 .. TOTAL_BITS-1 and OVERALL_PARITY_ERROR for the overall parity
\* position p = TOTAL_BITS.
C2_SingleBitCorrection ==
    (hpc = "decoded" /\ Cardinality(hflips) = 1) =>
        /\ hres.corrected_data = hdata
        /\ hres.data_corrected
        /\ hres.word = Hamming_encode(hw, hdata)
        /\ hres.error_position \in hflips
        /\ hres.error_type =
              IF hflips = {TOTAL_BITS(hw)} THEN "OVERALL_PARITY_ERROR"
              ELSE "SINGLE_ERROR_CORRECTABLE"

\* the unit test's case: 0x12345678 with position 5 flipped is corrected
C2_Witness ==
    /\ hpc = "decoded" /\ hw = 32 /\ hflips = {5}
    /\ hdata = HexWord(<<1,2,3,4,5,6,7,8>>)
    /\ hres.error_type = "SINGLE_ERROR_CORRECTABLE" /\ hres.corrected_data = hdata

\* C3: double-error detection.  For every d and every two distinct codeword
\* positions, decoding encode(d) with both bits flipped is classified
\* DOUBLE_ERROR_DETECTABLE and no correction is applied (the word is left as
\* received).
C3_DoubleErrorDetection ==
    (hpc = "decoded" /\ Cardinality(hflips) = 2) =>
        /\ hres.error_type = "DOUBLE_ERROR_DETECTABLE"
        /\ ~hres.data_corrected
        /\ hres.word = hcw

\* the positions 5 and 12 of the unit test, flipped in the codeword of a
\* non-zero 64-bit word
C3_Witness ==
    /\ hpc = "decoded" /\ hw = 64 /\ hflips = {5, 12}
    /\ hdata # {} /\ hres.error_type = "DOUBLE_ERROR_DETECTABLE"

-----------------------------------------------------------------------------
(* Properties of the BCH(63,51) codec, checked under SpecBCH: every message
   of BchMessages and every set of at most T + 1 flipped positions. *)

\* the positions a decode result lists in error_locations
LocationSet(r) == {r.error_locations[k] : k \in 1..Len(r.error_locations)}

\* C4: round trip.  For every message m, decode(encode(m)) returns
\* detected = false, success = true, data = m, no error locations, and
\* corrected equal to encode(m).
C4_BchRoundTrip ==
    (bpc = "decoded" /\ bflips = {}) =>
        /\ ~bres.detected
        /\ bres.success
        /\ bres.data = bmsg
        /\ bres.error_locations = <<>>
        /\ bres.corrected = bclean

\* makeMessage(51) of the unit test decoded from its clean codeword, which
\* carries parity bits
C4_Witness ==
    /\ bpc = "decoded" /\ bflips = {} /\ bmsg = makeMessage(k_)
    /\ bres.success /\ ~bres.detected /\ bres.data = bmsg
    /\ bclean \cap (0..(generator_degree - 1)) # {}

\* C5: every error pattern of weight 1 or 2 is corrected.  Decoding encode(m)
\* with one or two bits flipped returns detected = true, success = true,
\* data = m, corrected = encode(m), and error_locations lists exactly the
\* flipped positions, each once.
C5_BchCorrectsUpToT ==
    (bpc = "decoded" /\ Cardinality(bflips) \in 1..T) =>
        /\ bres.detected
        /\ bres.success
        /\ bres.data = bmsg
        /\ bres.corrected = bclean
        /\ LocationSet(bres) = bflips
        /\ Len(bres.error_locations) = Cardinality(bflips)

\* a corrected double error with one flip among the parity bits and one among
\* the data bits, the last position included
C5_Witness ==
    /\ bpc = "decoded" /\ bflips = {3, N - 1}
    /\ bres.success /\ bres.error_locations = <<3, N - 1>> /\ bres.data = bmsg

\* C6: triple-error detection.  Decoding encode(m) with three bits flipped
\* returns detected = true and never success = true together with data = m.
C6_BchTripleDetected ==
    (bpc = "decoded" /\ Cardinality(bflips) = T + 1) =>
        /\ bres.detected
        /\ ~(bres.success /\ bres.data = bmsg)

\* a triple error that is miscorrected to another codeword: success is
\* reported, with data other than m
C6_Witness ==
    /\ bpc = "decoded" /\ Cardinality(bflips) = T + 1
    /\ bres.detected /\ bres.success /\ bres.data # bmsg

\* C7: strict success.  Whenever decode(r) returns success = true, all 2T
\* syndromes of result.corrected are zero, result.corrected differs from r in
\* exactly the positions listed in error_locations, and there are at most T
\* such positions.
C7_BchStrictSuccess ==
    (bpc = "decoded" /\ bres.success) =>
        /\ AllZero(computeSyndromes(bres.corrected))
        /\ SymDiff(bres.corrected, bcw) = LocationSet(bres)
        /\ Len(bres.error_locations) = Cardinality(LocationSet(bres))
        /\ Len(bres.error_locations) <= T

\* success on a received word that is not a codeword and is three flips away
\* from the encoded one: two positions are changed
C7_Witness ==
    /\ bpc = "decoded" /\ bres.success /\ Cardinality(bflips) = T + 1
    /\ Len(bres.error_locations) = 2
    /\ SymDiff(bres.corrected, bcw) = LocationSet(bres)
    /\ bres.corrected # bclean

-----------------------------------------------------------------------------
(* Properties claimed of the SEC-DAEC codec, checked under SpecSecDaec: every
   data word of DaecData and every set of at most MaxFlips flipped codeword
   indices.  The code does not meet them; each is stated as claimed, followed
   by the state of the failing input. *)

\* the data bit stored at codeword index pos (pos a data position)
DataBitAt(pos) ==
    CHOOSE k \in 0..(SecDaec_DATA_BITS - 1) : SecDaec_getDataPositions[k + 1] = pos

DataPositionSet ==
    {SecDaec_getDataPositions[k] : k \in 1..SecDaec_DATA_BITS}

\* C8: double-adjacent correction.  Flipping the two codeword bits that hold
\* an adjacent data-bit pair (i, i+1) of encode(d) and decoding returns
\* corrected = true with data = d; flipping the bits of a non-adjacent
\* data-bit pair returns detected = true and corrected = false.
C8_DaecDoubleAdjacent ==
    (dpc = "decoded" /\ Cardinality(dflips) = 2 /\ dflips \subseteq DataPositionSet) =>
        LET ks == {DataBitAt(pos) : pos \in dflips}
            adjacent == \E i \in ks : i + 1 \in ks
        IN  IF adjacent THEN dres.corrected /\ dres.data = ddata
            ELSE dres.detected /\ ~dres.corrected

\* d = 0 with data bits 0 and 1 (codeword indices 2 and 4) flipped: the
\* syndrome 6 has no entry in the adjacency table and nothing is corrected
C8_FailingInput ==
    /\ dpc = "decoded" /\ ddata = {} /\ dflips = {2, 4}
    /\ dres.detected /\ ~dres.corrected /\ dres.data = {0, 1}

\* C9: round trip.  For every data word d, decode(encode(d)) reports a clean
\* word (detected = false, corrected = false) and returns data = d.
C9_DaecRoundTrip ==
    (dpc = "decoded" /\ dflips = {}) =>
        /\ ~dres.detected
        /\ ~dres.corrected
        /\ dres.data = ddata

\* d = 1: the clean codeword is reported as an error
C9_FailingInput ==
    /\ dpc = "decoded" /\ ddata = {0} /\ dflips = {}
    /\ dres.detected /\ ~dres.corrected

\* C10: single-error correction is kept.  For every data word d and every
\* codeword index p in 0 .. TOTAL_BITS-1, decoding encode(d) with bit p
\* flipped returns detected = true, corrected = true and data = d.
C10_DaecSingleError ==
    (dpc = "decoded" /\ Cardinality(dflips) = 1) =>
        /\ dres.detected
        /\ dres.corrected
        /\ dres.data = ddata

\* d = 0 with the overall parity bit (codeword index 72) flipped: the overall
\* parity of decode leaves that bit out, so the word is taken for clean
C10_FailingInput ==
    /\ dpc = "decoded" /\ ddata = {} /\ dflips = {SecDaec_TOTAL_BITS - 1}
    /\ ~dres.detected /\ ~dres.corrected

\* C11: adjacent-pair detection.  For every data word d and every k with
\* 0 <= k < 63, decoding encode(d) with the codeword bits at
\* getDataPositions()[k] and getDataPositions()[k+1] flipped returns
\* detected = true.
C11_DaecAdjacentDetected ==
    (/\ dpc = "decoded"
     /\ \E k \in 0..(SecDaec_DATA_BITS - 2) :
            dflips = {SecDaec_getDataPositions[k + 1], SecDaec_getDataPositions[k + 2]})
    => dres.detected

\* the unit test's word 0x12345678abcdef with the last adjacent pair of data
\* positions (70, 71) flipped
C11_Witness ==
    /\ dpc = "decoded" /\ dflips = {70, 71}
    /\ ddata = HexWord(<<1,2,3,4,5,6,7,8,10,11,12,13,14,15>>)
    /\ dres.detected

-----------------------------------------------------------------------------
(* Properties of the Hamming codec under heavier corruption, checked under
   SpecHammingMulti. *)

\* C12: no false correction.  For every data word d and every error pattern
\* of weight 2 or more applied to encode(d), decode never returns
\* data_corrected = true with corrected_data other than d.
C12_NoFalseCorrection ==
    (hpc = "decoded" /\ Cardinality(hflips) >= 2) =>
        ~(hres.data_corrected /\ hres.corrected_data # hdata)

\* 0x12345678 with the data positions 3, 5 and 6 flipped: the syndrome
\* 3 xor 5 xor 6 is 0 and the overall parity is odd, so the word is reported
\* as an overall parity error, corrected, with three data bits wrong
C12_FailingInput ==
    /\ hpc = "decoded" /\ hw = 32 /\ hflips = {3, 5, 6}
    /\ hdata = HexWord(<<1,2,3,4,5,6,7,8>>)
    /\ hres.error_type = "OVERALL_PARITY_ERROR"
    /\ hres.data_corrected
    /\ hres.corrected_data = SymDiff(hdata, {0, 1, 2})

\* C13 (as stated): decode follows the four-cell table for every received
\* pattern, S being the computed syndrome and P the computed overall parity:
\* (0,0) NO_ERROR, nothing flipped; (0,1) OVERALL_PARITY_ERROR, position N
\* flipped; (S # 0, 1) SINGLE_ERROR_CORRECTABLE, position S flipped;
\* (S # 0, 0) DOUBLE_ERROR_DETECTABLE, nothing flipped; the returned data is
\* extracted from the word after exactly that action.
C13_AsStated ==
    hpc = "decoded" =>
        LET S == hres.syndrome
            P == hres.overall_parity
            Nbits == TOTAL_BITS(hw)
        IN  /\ hres.error_type =
                  IF S = 0 THEN (IF P THEN "OVERALL_PARITY_ERROR" ELSE "NO_ERROR")
                  ELSE (IF P THEN "SINGLE_ERROR_CORRECTABLE" ELSE "DOUBLE_ERROR_DETECTABLE")
            /\ hres.word =
                  IF ~P THEN hcw
                  ELSE IF S = 0 THEN flipBit(hcw, Nbits, Nbits)
                  ELSE flipBit(hcw, Nbits, S)
            /\ hres.corrected_data = ExtractData(hw, hres.word)

\* C13 (amended): as above, except that in the cell (S # 0, P = 1) position S
\* is flipped only when 1 <= S <= N-1; for S >= N the classification is still
\* SINGLE_ERROR_CORRECTABLE but nothing is flipped.  data_corrected tells
\* whether a bit was flipped.
C13_DecodeTable ==
    hpc = "decoded" =>
        LET S == hres.syndrome
            P == hres.overall_parity
            Nbits == TOTAL_BITS(hw)
            flips == IF P /\ S = 0 THEN {Nbits}
                     ELSE IF P /\ S >= 1 /\ S <= Nbits - 1 THEN {S}
                     ELSE {}
        IN  /\ hres.error_type =
                  IF S = 0 THEN (IF P THEN "OVERALL_PARITY_ERROR" ELSE "NO_ERROR")
                  ELSE (IF P THEN "SINGLE_ERROR_CORRECTABLE" ELSE "DOUBLE_ERROR_DETECTABLE")
            \* position f is stored at index f - 1
            /\ hres.word = SymDiff(hcw, {f - 1 : f \in flips})
            /\ hres.data_corrected = (flips # {})
            /\ hres.corrected_data = ExtractData(hw, hres.word)

\* a received word whose syndrome is odd-parity and beyond the codeword:
\* classified as a single error, nothing flipped
C13_Witness ==
    /\ hpc = "decoded" /\ hres.overall_parity
    /\ hres.syndrome > TOTAL_BITS(hw)
    /\ hres.error_type = "SINGLE_ERROR_CORRECTABLE"
    /\ ~hres.data_corrected /\ hres.word = hcw

-----------------------------------------------------------------------------
(* Totality of decode, checked under SpecRaw: words that are not codewords,
   with up to MaxFlips (BCH: BchMaxErrors) further bits flipped. *)

ErrorTypes == {"NO_ERROR", "SINGLE_ERROR_CORRECTABLE", "DOUBLE_ERROR_DETECTABLE",
               "MULTIPLE_ERROR_UNCORRECTABLE", "OVERALL_PARITY_ERROR"}

\* a DecodingResult of the Hamming codec with every field in its range
HamWellFormed(w, r) ==
    /\ r.error_type \in ErrorTypes
    /\ r.syndrome \in 0..(2^PARITY_BITS(w) - 1)
    /\ r.error_position \in 0..(2^PARITY_BITS(w) - 1)
    /\ r.overall_parity \in BOOLEAN /\ r.data_corrected \in BOOLEAN
    /\ r.corrected_data \subseteq 0..(DATA_BITS(w) - 1)

\* a DecodeResult of BCH63 with every field in its range
BchWellFormed(r) ==
    /\ r.detected \in BOOLEAN /\ r.success \in BOOLEAN
    /\ r.corrected \subseteq 0..(N - 1)
    /\ Len(r.data) = k_ /\ \A i \in 1..k_ : r.data[i] \in BOOLEAN
    /\ Len(r.error_locations) <= T
    /\ \A i \in 1..Len(r.error_locations) : r.error_locations[i] \in 0..(N - 1)

\* a DecodingResult of SecDaec64 with every field in its range
DaecWellFormed(r) ==
    /\ r.corrected \in BOOLEAN /\ r.detected \in BOOLEAN
    /\ r.data \subseteq 0..(SecDaec_DATA_BITS - 1)

\* C14: decode is total.  Whatever word is handed to it, a codeword or not,
\* each of HammingCodeSECDED::decode, SecDaec64::decode and BCH63::decode
\* returns a well-formed result, and no step of it throws or indexes out of
\* range: in BCH63::decode gfInv(0) is never reached, gfDiv is never called,
\* and every syndrome and table index is inside its array.
C14_DecodeTotal ==
    /\ hpc # "idle" => Hamming_decode_faults(hw, pcm, hcw) = {}
    /\ hpc = "decoded" => HamWellFormed(hw, hres)
    /\ bpc # "idle" => BCH63_decode_faults(bcw) = {}
    /\ bpc = "decoded" => BchWellFormed(bres)
    /\ dpc # "idle" => SecDaec64_decode_faults(dcw) = {}
    /\ dpc = "decoded" => DaecWellFormed(dres)

\* a word that is no codeword and lies at distance three from the pattern
\* received: Berlekamp-Massey ran and the decoder gave up without an error
\* location
C14_Witness ==
    /\ bpc = "decoded" /\ bmsg = <<>> /\ Cardinality(bflips) = BchMaxErrors
    /\ ~AllZero(computeSyndromes(bcw))
    /\ bres.detected /\ ~bres.success /\ bres.error_locations = <<>>

-----------------------------------------------------------------------------
(* The adjacency table under concurrent first use, checked under
   SpecSecDaecThreads: two threads, each decoding one word of ThrWords. *)

\* C15: the adjacency table is completely built before any decode reads it.
\* Whenever a thread is about to read table[s] the table is the fully built
\* one, no other thread is about to write it, and every lookup that returned
\* gave the pair a single-threaded run gives.
C15_TableBuiltBeforeRead ==
    \A t \in Threads :
        /\ thr_pc[t] = "read" =>
              /\ table = BuildAdjTable
              /\ \A u \in Threads \ {t} : ~Writing(u)
        /\ (thr_pc[t] = "done" /\ thr_ret[t] # <<>>) =>
              thr_ret[t] = BuildAdjTable[thr_s[t]]

\* both threads found init false; one built the table and went on to read
\* while the other zeroed it again: the lookup of syndrome 3 returned {0,0}
\* where a single-threaded run returns a pair of neighbours
C15_FailingInput ==
    \E t \in Threads :
        /\ thr_pc[t] = "done" /\ thr_s[t] = 3
        /\ thr_ret[t] = <<0, 0>>
        /\ BuildAdjTable[3] # <<0, 0>>
        /\ \E u \in Threads \ {t} : thr_pc[u] = "fill"

-----------------------------------------------------------------------------
(* BCH63::encode alone, checked under SpecBCHEncode: every message with at
   most two bits set and the messages of BchMessages. *)

\* C16: encode produces valid codewords.  For every message m the polynomial
\* of encode(m) leaves remainder 0 on division by the generator polynomial,
\* and all four syndromes S1..S4 of encode(m) are zero.
C16_EncodeValid ==
    bpc = "encoded" =>
        /\ polynomialMod(bcw, generator_mask) = {}
        /\ AllZero(computeSyndromes(bcw))

\* a message whose shifted polynomial is not a multiple of the generator:
\* encode set parity bits below the message bits
C16_Witness ==
    /\ bpc = "encoded" /\ bflips = {} /\ bcw = bclean
    /\ \E i \in 1..k_ : bmsg[i]
    /\ bcw \cap (0..(generator_degree - 1)) # {}
    /\ \A i \in 1..k_ : bmsg[i] = ((generator_degree + i - 1) \in bcw)

-----------------------------------------------------------------------------
(* The generator polynomial built by the BCH63 constructor. *)

\* the value of the polynomial poly at alpha^e, from coefficient i upwards
RECURSIVE PolyAt(_, _, _)
PolyAt(poly, e, i) ==
    IF i > Len(poly) THEN 0
    ELSE Xor(IF poly[i] = 0 THEN 0 ELSE gfMul(poly[i], alpha_to[(e * (i - 1)) % N]),
             PolyAt(poly, e, i + 1))

\* the exponents e in 0..N-1 with poly(alpha^e) = 0
RootsOf(poly) == {e \in 0..(N - 1) : PolyAt(poly, e, 1) = 0}

\* C17: the generator built at construction is the product of the distinct
\* minimal polynomials of alpha^1..alpha^4 over GF(2^6) with primitive
\* polynomial x^6 + x + 1: its coefficients are 0 or 1, its degree is exactly
\* 12, alpha^1..alpha^4 are roots, its roots are exactly the conjugates of
\* alpha and alpha^3 (each factor once), and dataLength() is 51.
C17_Generator ==
    /\ PRIMITIVE_POLY = 2^6 + 2 + 1
    /\ \A i \in 1..Len(generator) : generator[i] \in {0, 1}
    /\ generator_degree = 12 /\ generator[Len(generator)] = 1
    /\ \A e \in 1..(2 * T) : PolyAt(generator, e, 1) = 0
    /\ generator = polyMultiplyGF2(minimalPolynomialFor(1), minimalPolynomialFor(3))
    /\ RootsOf(generator) = {1, 2, 4, 8, 16, 32} \cup {3, 6, 12, 24, 48, 33}
    /\ k_ = 51
    /\ bpc = "encoded" => Len(bmsg) = 51

\* the constructed codec encoded a 51-bit message: the parity bits of the
\* codeword are the remainder modulo the degree-12 generator
C17_Witness ==
    /\ bpc = "encoded" /\ Len(bmsg) = k_
    /\ Degree(generator_mask) = generator_degree
    /\ bcw \cap (0..(generator_degree - 1)) =
          polynomialMod({i + generator_degree : i \in {j \in 0..(k_ - 1) : bmsg[j + 1]}},
                        generator_mask)
    /\ bcw \cap (0..(generator_degree - 1)) # {}

-----------------------------------------------------------------------------
(* Purity of decode, checked under SpecRepeat: up to MaxCalls decode calls in
   any order on the words of RepeatWords. *)

-----------------------------------------------------------------------------
(* The parity-check rows of the Hamming codec, checked under SpecHammingPcm:
   encode, decode, resetPCM and loadPCMFromFile in any order. *)

-----------------------------------------------------------------------------
(* Range checks of the bit containers, checked under SpecContainers. *)

\* C20: out-of-range bit positions are no-ops in every bit container
\* (CodeWordStorage, BCH63::Codeword, BitVector and the legacy
\* HammingCodeSECDED::CodeWord): set and flip at a position outside the valid
\* range leave every bit unchanged, so each container holds what the calls
\* inside the range made of it, and get at such a position returns false.
C20_OutOfRangeNoOp ==
    /\ hcw = cref.storage
    /\ \A pos \in ProbePositions(1, TOTAL_BITS(hw)) \ (1..TOTAL_BITS(hw)) :
          ~getBit(hcw, TOTAL_BITS(hw), pos)
    /\ bcw = cref.codeword
    /\ \A pos \in ProbePositions(0, N - 1) \ (0..(N - 1)) : ~CodewordGetBit(bcw, pos)
    /\ dcw = cref.bitvector
    /\ \A pos \in ProbePositions(0, 127) \ (0..127) :
          ~BitVectorGet(dcw, ToSizeT(pos))
    /\ ldata = cref.legacy
    /\ \A pos \in ProbePositions(1, TOTAL_BITS(32)) \ (1..TOTAL_BITS(32)) :
          LegacyGetBit(ldata, pos) = {FALSE}

\* setBit(40, true) on an empty legacy CodeWord: bit 39 of data is set, one
\* beyond the 39-bit codeword, and getBit(40) returns true
C20_FailingInput ==
    /\ ldata = {TOTAL_BITS(32)} /\ cref.legacy = {}
    /\ LegacyGetBit(ldata, TOTAL_BITS(32) + 1) = {TRUE}

-----------------------------------------------------------------------------
(* The classifications decode can return, checked under SpecHammingMulti. *)

\* C21: HammingCodeSECDED::decode never returns MULTIPLE_ERROR_UNCORRECTABLE:
\* for every received pattern the classification is one of NO_ERROR,
\* OVERALL_PARITY_ERROR, SINGLE_ERROR_CORRECTABLE, DOUBLE_ERROR_DETECTABLE.
C21_NeverMultiple ==
    hpc = "decoded" =>
        hres.error_type \in {"NO_ERROR", "OVERALL_PARITY_ERROR",
                             "SINGLE_ERROR_CORRECTABLE", "DOUBLE_ERROR_DETECTABLE"}

\* three bits of a codeword are flipped and the syndrome points beyond the
\* codeword: decode still answers SINGLE_ERROR_CORRECTABLE
C21_Witness ==
    /\ hpc = "decoded" /\ Cardinality(hflips) = 3
    /\ hres.syndrome >= TOTAL_BITS(hw)
    /\ hres.error_type = "SINGLE_ERROR_CORRECTABLE"

-----------------------------------------------------------------------------
(* encode on over-wide data, checked under SpecEncodeWide. *)

\* C22 (as stated): encode never rejects over-wide data; BCH63::encode given a
\* bit vector longer than 51 bits returns the codeword of its first 51 bits.
C22_AsStated ==
    (bpc # "idle" /\ Len(bmsg) > k_) =>
        bpc = "encoded" /\ bcw = BCH63_encode(SubSeq(bmsg, 1, k_))

\* C22 (amended): the Hamming and SecDaec64 encoders use the low W bits of an
\* over-wide value and return the codeword of the truncated value, while
\* BCH63::encode rejects every bit vector longer than 51 bits and returns a
\* codeword only for vectors of exactly 51 bits.
C22_WideEncode ==
    /\ hpc = "encoded" => hcw = Hamming_encode(hw, LowBits(hdata, DATA_BITS(hw)))
    /\ dpc = "encoded" => dcw = SecDaec64_encode(LowBits(ddata, SecDaec_DATA_BITS))
    /\ (bpc # "idle" /\ Len(bmsg) > k_) => bpc = "rejected"
    /\ bpc = "encoded" => Len(bmsg) = k_ /\ bcw = BCH63_encode(bmsg)

\* a 53-bit vector was handed to BCH63::encode, which threw
C22_Witness == bpc = "rejected" /\ Len(bmsg) = k_ + 2

-----------------------------------------------------------------------------
(* The memory simulator, checked under SpecMemory: at most MaxOps calls of
   write, read, injectError, injectBurstError, injectRandomErrors and
   resetStatistics on a written address, a never-written address and the
   first address beyond the memory. *)

\* the calls the input validation has to reject, given the memory they find
InvalidCall(call, mem) ==
    \/ call.op = "write" /\ call.address >= memory_size_words
    \/ /\ call.op \in {"read", "injectError", "injectBurstError", "injectRandomErrors"}
       /\ call.address \notin DOMAIN mem
    \/ call.op = "injectError" /\ (call.a1 < 1 \/ call.a1 > TOTAL_BITS(hw))
    \/ /\ call.op = "injectBurstError"
       /\ call.a2 >= 1
       /\ (call.a1 < 1 \/ call.a2 > (TOTAL_BITS(hw) - call.a1) + 1)

\* C23: a write beyond the memory, a read or inject* on a never-written
\* address, an injectError outside [1,N] and an injectBurstError whose range
\* leaves [1,N] each raise an exception and leave every stored codeword and
\* every statistics counter unchanged.
C23_InvalidCallsRejected ==
    [][(ghost'.ops # ghost.ops /\ InvalidCall(sim', memory)) =>
           (sim'.threw /\ memory' = memory /\ counters' = counters)]_vars

\* injectBurstError(7, 2, INT_MAX) returned normally and the stored codeword
\* is no longer the one that was written
C23_FailingInput ==
    /\ sim.op = "injectBurstError" /\ sim.a1 = 2 /\ sim.a2 = INT_MAX
    /\ ~sim.threw
    /\ memory[WrittenAddress] # Hamming_encode(hw, ghost.written[WrittenAddress])

-----------------------------------------------------------------------------
(* injectRandomErrors, checked under SpecInjectRandom. *)

\* C24: injectRandomErrors(address, num_errors) on a written address
\* terminates for every num_errors >= 0 and flips pairwise-distinct positions
\* in [1,N] of the stored codeword: while the loop still has a position to
\* draw, one is left that was not drawn before, and the stored codeword is
\* the written one with exactly the i drawn positions flipped.
C24_RandomErrorsFinish ==
    rnd.pc = "loop" =>
        /\ rnd.i < rnd.num_errors => (1..TOTAL_BITS(hw)) \ rnd.used # {}
        /\ Cardinality(rnd.used) = rnd.i
        /\ memory[rnd.address] =
               SymDiff(Hamming_encode(hw, ghost.written[rnd.address]),
                       {p - 1 : p \in rnd.used})

\* injectRandomErrors(7, N + 1) has flipped all N positions and draws again
C24_FailingInput ==
    /\ rnd.pc = "loop" /\ rnd.num_errors = TOTAL_BITS(hw) + 1
    /\ rnd.i = TOTAL_BITS(hw) /\ rnd.used = 1..TOTAL_BITS(hw)

-----------------------------------------------------------------------------
(* The known vectors of the 32-bit workload, checked under SpecKnownVectors. *)

\* C25: with bit position p stored at raw bit p-1, encode(0x00000000) is 0x0,
\* encode(0xFFFFFFFF) is 0x3F7FFFFFF4 and encode(0x12345678) is 0x44C68A67C9,
\* and decoding each of these codewords returns the original data.
C25_KnownVectors ==
    \A k \in 1..Len(known_vectors) :
        (hpc # "idle" /\ hflips = {} /\ hdata = known_vectors[k].data) =>
            /\ hcw = known_vectors[k].encoded
            /\ hpc = "decoded" => hres.corrected_data = known_vectors[k].data

\* encode(0x12345678) was decoded untouched
C25_Witness ==
    /\ hpc = "decoded" /\ hflips = {}
    /\ hdata = known_vectors[3].data /\ hcw = known_vectors[3].encoded

-----------------------------------------------------------------------------
(* Scrub-on-read, checked under SpecScrub: write(a, d) followed by rounds of
   one injectError(a, p), p in [1,N], and one read(a), both widths. *)

\* C26: after write(a, d), in every round of one injectError(a, p) followed by
\* read(a), the read returns corrected_data = d with data_corrected = true and
\* leaves encode(d) stored at a, so single errors never accumulate.
C26_ScrubOnRead ==
    sim.op = "read" =>
        /\ ~sim.threw
        /\ sim.result.corrected_data = ghost.written[sim.address]
        /\ sim.result.data_corrected
        /\ memory[sim.address] = Hamming_encode(hw, ghost.written[sim.address])

\* the third round's read has corrected a flipped overall parity bit after
\* earlier rounds corrected flips inside the Hamming part
C26_Witness ==
    /\ sim.op = "read" /\ ghost.reads = 3
    /\ sim.result.error_type = "OVERALL_PARITY_ERROR"
    /\ counters["single_errors_corrected"] = 2

-----------------------------------------------------------------------------
(* The statistics of the memory simulator, checked under SpecMemory. *)

\* the parts of the statistics invariant that concern reads
ReadCountersAgree ==
    /\ counters["total_reads"] =
           counters["no_errors"] + counters["single_errors_corrected"]
           + counters["double_errors_detected"]
           + counters["multiple_errors_uncorrectable"]
           + counters["overall_parity_errors"]
    /\ counters["total_reads"] = ghost.reads
    /\ counters["data_corruption_prevented"] =
           counters["single_errors_corrected"] + counters["double_errors_detected"]
           + counters["overall_parity_errors"]

\* C27 (as stated): after any sequence of write, read, inject* and
\* resetStatistics calls, throwing ones included, total_reads is the sum of
\* the five per-classification counters and the number of reads returned since
\* the last reset, total_writes is the number of writes that returned, and
\* data_corruption_prevented is single + double + overall-parity.
C27_AsStated ==
    ReadCountersAgree /\ counters["total_writes"] = ghost.writes_ever

\* C27 (amended): the same, with total_writes equal to the number of writes
\* that returned since the last reset.
C27_Statistics ==
    ReadCountersAgree /\ counters["total_writes"] = ghost.writes

\* a write, a reset and another write: two writes returned, total_writes is 1
C27_Witness ==
    /\ ghost.writes_ever = 2 /\ counters["total_writes"] = 1
    /\ sim.op = "write" /\ ~sim.threw

-----------------------------------------------------------------------------
(* Failed BCH decodes, checked under SpecBCH. *)

\* C28: whenever BCH63::decode(r) returns success = false it also returns
\* detected = true, corrected equal to r bit for bit, data = extractData(r)
\* and an empty error_locations list.
C28_FailureCarriesNoCorrection ==
    (bpc = "decoded" /\ ~bres.success) =>
        /\ bres.detected
        /\ bres.corrected = bcw
        /\ bres.data = extractData(bcw)
        /\ bres.error_locations = <<>>

\* a codeword with three flipped bits was decoded and the decode failed
C28_Witness ==
    /\ bpc = "decoded" /\ ~bres.success
    /\ Cardinality(bflips) = 3 /\ bcw # bclean

-----------------------------------------------------------------------------
(* Failed loads of a parity-check matrix, checked under SpecHammingPcm. *)

\* C29: whenever loadParityCheckMatrix(path) returns false (the file cannot
\* be opened, or it contains no usable row), the codec's parity-check rows are
\* the default Hamming rows, so that encode and decode behave as on a freshly
\* constructed codec.
C29_FailedLoadFallsBack ==
    [][\A f \in PcmFiles(hw) :
          (loadPCMFromFile(f) /\ ~loadPCMFromFile_returns(hw, f)) =>
              pcm' = buildParityCheckMatrix(hw)]_vars

\* after the load of an empty file returned false the codec has no rows, and
\* a decode answered differently from a freshly constructed codec
C29_FailingInput ==
    /\ pcm = <<>>
    /\ hpc = "decoded"
    /\ hres # Hamming_decode(hw, buildParityCheckMatrix(hw), hcw)

-----------------------------------------------------------------------------
(* SATSolver::solve, checked under SpecSat: every sequence of distinct clauses
   of ClausePool, every choice chooseVariable may make among equal scores. *)

\* C30: SATSolver decides satisfiability: for every clause set added with
\* addClause and every order in which chooseVariable may pick among unassigned
\* variables, solve() returns true if and only if the clause set is
\* satisfiable.
C30_Decides ==
    sat_pc = "done" => (sat_ret <=> Satisfiable(clauses))

\* (-x1 | x2), (-x1 | -x2), (x1 | -x2), (x1 | x3) is satisfied by x1 = x2 =
\* false, x3 = true, and solve() returned false
C30_FailingInput ==
    /\ sat_pc = "done" /\ ~sat_ret
    /\ [k \in 1..Len(clauses) |-> clauses[k].literals]
           = << <<-1, 2>>, <<-1, -2>>, <<1, -2>>, <<1, 3>> >>

====
